---------------------------- MODULE Spec2Model ----------------------------
(***************************************************************************)
(* Model of the kits/chains extractor (src/extractor_kits/extractor_kits.py)*)
(* A text is a sequence of one-character strings.  The regular expressions  *)
(* of the source are kept as syntax trees and run by a backtracking matcher *)
(* with the priority order of Python's re module (leftmost match, greedy or *)
(* lazy repetition, ordered alternation, lookahead).                        *)
(***************************************************************************)
EXTENDS Integers, Sequences, FiniteSets, TLC

(***************************************************************************)
(* Characters.                                                              *)
(***************************************************************************)
Digitos == {"0", "1", "2", "3", "4", "5", "6", "7", "8", "9"}

Minusculas ==
  {"a", "b", "c", "d", "e", "f", "g", "h", "i", "j", "k", "l", "m",
   "n", "o", "p", "q", "r", "s", "t", "u", "v", "w", "x", "y", "z"}

Mayusculas ==
  {"A", "B", "C", "D", "E", "F", "G", "H", "I", "J", "K", "L", "M",
   "N", "O", "P", "Q", "R", "S", "T", "U", "V", "W", "X", "Y", "Z"}

\* \s of the re module, for the characters a line of the input can hold
Espacios == {" ", "\t"}

\* \w of the re module
Palabra == Digitos \cup Minusculas \cup Mayusculas \cup {"_"}

TablaMayus ==
  [a |-> "A", b |-> "B", c |-> "C", d |-> "D", e |-> "E", f |-> "F",
   g |-> "G", h |-> "H", i |-> "I", j |-> "J", k |-> "K", l |-> "L",
   m |-> "M", n |-> "N", o |-> "O", p |-> "P", q |-> "Q", r |-> "R",
   s |-> "S", t |-> "T", u |-> "U", v |-> "V", w |-> "W", x |-> "X",
   y |-> "Y", z |-> "Z"]

\* str.upper() on one character
MayusCar(c) == IF c \in Minusculas THEN TablaMayus[c] ELSE c

\* str.upper()
Upper(txt) == [idx \in 1..Len(txt) |-> MayusCar(txt[idx])]

ValorDigito(c) ==
  CASE c = "0" -> 0 [] c = "1" -> 1 [] c = "2" -> 2 [] c = "3" -> 3
    [] c = "4" -> 4 [] c = "5" -> 5 [] c = "6" -> 6 [] c = "7" -> 7
    [] c = "8" -> 8 [] c = "9" -> 9

(***************************************************************************)
(* Regular expressions: syntax trees.                                       *)
(***************************************************************************)
Sin == 1000                \* no upper limit of a repetition (*, +)

Car(S)   == [t |-> "car", s |-> S]                  \* [...]  one character of S
NoCar(S) == [t |-> "nocar", s |-> S]                \* [^...] one character not in S
Lit(w)   == [t |-> "lit", w |-> w]                  \* literal text
Cat(rs)  == [t |-> "cat", rs |-> rs]                \* r1 r2 ...
Alt(rs)  == [t |-> "alt", rs |-> rs]                \* r1|r2|...
Rep(r, lo, hi) == [t |-> "rep", r |-> r, lo |-> lo, hi |-> hi, g |-> TRUE]
RepLazy(r, lo, hi) == [t |-> "rep", r |-> r, lo |-> lo, hi |-> hi, g |-> FALSE]
Grp(r)   == [t |-> "grp", r |-> r]                  \* ( ... )  group 1
Ver(r)   == [t |-> "ver", r |-> r]                  \* (?= ... )
NoVer(r) == [t |-> "nover", r |-> r]                \* (?! ... )
Fin      == [t |-> "fin"]                           \* $
Borde    == [t |-> "borde"]                         \* \b

Esp0 == Rep(Car(Espacios), 0, Sin)                  \* \s*
Esp1 == Rep(Car(Espacios), 1, Sin)                  \* \s+
Dig1 == Rep(Car(Digitos), 1, Sin)                   \* \d+
Opc(r) == Rep(r, 0, 1)                              \* r?

(***************************************************************************)
(* The matcher.  A match state is [p: next position, a, b: group 1 is       *)
(* txt[a..b-1], a = 0 when the group did not take part].  M returns the     *)
(* match states a pattern can end in from state st, in the order in which   *)
(* the backtracking search of re tries them; the head is re's match.        *)
(***************************************************************************)
\* one statement after another: Sigue applied to the value the first leaves
Luego(valor, Sigue(_)) == CHOOSE res \in { Sigue(v) : v \in {valor} } : TRUE

Minimo(S) == CHOOSE x \in S : \A y \in S : x <= y
Maximo(S) == CHOOSE x \in S : \A y \in S : x >= y

EsPalabra(txt, idx) == idx >= 1 /\ idx <= Len(txt) /\ txt[idx] \in Palabra

LitEn(w, txt, p, ic) ==
  /\ p + Len(w) - 1 <= Len(txt)
  /\ \A idx \in 1..Len(w) :
       IF ic THEN MayusCar(txt[p + idx - 1]) = MayusCar(w[idx])
             ELSE txt[p + idx - 1] = w[idx]

CarEn(S, txt, p, ic) ==
  /\ p <= Len(txt)
  /\ \/ txt[p] \in S
     \/ ic /\ \E c \in S : MayusCar(c) = MayusCar(txt[p])

RECURSIVE M(_, _, _, _), MTodos(_, _, _, _), MCat(_, _, _, _, _),
          MAlt(_, _, _, _, _), MRep(_, _, _, _, _), MRepCar(_, _, _, _)

M(r, txt, st, ic) ==
  CASE r.t = "car"   -> IF CarEn(r.s, txt, st.p, ic)
                          THEN <<[st EXCEPT !.p = @ + 1]>> ELSE <<>>
    [] r.t = "nocar" -> IF st.p <= Len(txt) /\ ~CarEn(r.s, txt, st.p, ic)
                          THEN <<[st EXCEPT !.p = @ + 1]>> ELSE <<>>
    [] r.t = "lit"   -> IF LitEn(r.w, txt, st.p, ic)
                          THEN <<[st EXCEPT !.p = @ + Len(r.w)]>> ELSE <<>>
    [] r.t = "cat"   -> MCat(r.rs, 1, txt, <<st>>, ic)
    [] r.t = "alt"   -> MAlt(r.rs, 1, txt, st, ic)
    [] r.t = "rep"   -> IF r.r.t \in {"car", "nocar"}
                          THEN MRepCar(r, txt, st, ic)
                          ELSE MRep(r, txt, st, 0, ic)
    [] r.t = "grp"   -> Luego(M(r.r, txt, st, ic), LAMBDA fs :
                          [idx \in 1..Len(fs) |->
                             [fs[idx] EXCEPT !.a = st.p, !.b = fs[idx].p]])
    [] r.t = "ver"   -> IF M(r.r, txt, st, ic) # <<>> THEN <<st>> ELSE <<>>
    [] r.t = "nover" -> IF M(r.r, txt, st, ic) = <<>> THEN <<st>> ELSE <<>>
    [] r.t = "fin"   -> IF st.p = Len(txt) + 1 THEN <<st>> ELSE <<>>
    [] r.t = "borde" -> IF EsPalabra(txt, st.p - 1) # EsPalabra(txt, st.p)
                          THEN <<st>> ELSE <<>>

\* every state of sts continued by r, the order kept
MTodos(r, txt, sts, ic) ==
  IF sts = <<>> THEN <<>>
  ELSE IF Len(sts) = 1 THEN M(r, txt, sts[1], ic)
  ELSE Luego(SubSeq(sts, 1, Len(sts) \div 2),
             LAMBDA unos : MTodos(r, txt, unos, ic))
       \o Luego(SubSeq(sts, Len(sts) \div 2 + 1, Len(sts)),
                LAMBDA otros : MTodos(r, txt, otros, ic))

MCat(rs, idx, txt, sts, ic) ==
  IF idx > Len(rs) \/ sts = <<>> THEN sts
  ELSE Luego(MTodos(rs[idx], txt, sts, ic),
             LAMBDA siguientes : MCat(rs, idx + 1, txt, siguientes, ic))

MAlt(rs, idx, txt, st, ic) ==
  IF idx > Len(rs) THEN <<>>
  ELSE M(rs[idx], txt, st, ic) \o MAlt(rs, idx + 1, txt, st, ic)

\* the repetitions of a pattern of one character from state st: the run of
\* characters it accepts is taken whole, then given back one by one (or, for
\* a lazy repetition, taken one by one)
MRepCar(r, txt, st, ic) ==
  LET Acepta(q) == IF r.r.t = "car" THEN CarEn(r.r.s, txt, q, ic)
                   ELSE q <= Len(txt) /\ ~CarEn(r.r.s, txt, q, ic)
      Corrida(malos) == IF ~Acepta(st.p) THEN 0
                        ELSE IF malos = {} THEN Len(txt) - st.p + 1
                        ELSE Minimo(malos) - st.p
      Tope(corrida)  == IF corrida <= r.hi THEN corrida ELSE r.hi
      Estados(tope)  ==
        [k \in 1..(tope - r.lo + 1) |->
           [st EXCEPT !.p = @ + (IF r.g THEN tope - k + 1 ELSE r.lo + k - 1)]]
  IN  Luego(Luego(Luego({ q \in st.p..Len(txt) : ~Acepta(q) }, Corrida), Tope),
            Estados)

\* n repetitions of r.r are done; a repetition that consumes nothing ends it
MRep(r, txt, st, n, ic) ==
  LET unaMas == IF n < r.hi
                  THEN SelectSeq(M(r.r, txt, st, ic), LAMBDA s : s.p > st.p)
                  ELSE <<>>
      RECURSIVE Sigue(_)
      Sigue(sts) == IF sts = <<>> THEN <<>>
                    ELSE MRep(r, txt, Head(sts), n + 1, ic)
                         \o Luego(Tail(sts), Sigue)
      mas  == Luego(unaMas, Sigue)
      para == IF n >= r.lo THEN <<st>> ELSE <<>>
  IN  IF r.g THEN mas \o para ELSE para \o mas

\* re.match at position p: the first match state, or <<>>
MatchEn(r, txt, p, ic) ==
  Luego(M(r, txt, [p |-> p, a |-> 0, b |-> 0], ic), LAMBDA fs :
    IF fs = <<>> THEN <<>> ELSE <<[ini |-> p, fin |-> fs[1].p,
                                   a |-> fs[1].a, b |-> fs[1].b]>>)

\* the positions from p on at which r matches
Inicios(r, txt, p, ic) ==
  { q \in p..(Len(txt) + 1) : MatchEn(r, txt, q, ic) # <<>> }

\* re.search from position p on: the leftmost match, or <<>>
Search(r, txt, p, ic) ==
  Luego(Inicios(r, txt, p, ic), LAMBDA qs :
    IF qs = {} THEN <<>> ELSE MatchEn(r, txt, Minimo(qs), ic))

\* the non-overlapping matches of r in txt, left to right (re.finditer);
\* qs holds the positions not yet passed at which r matches
RECURSIVE MatchesDe(_, _, _, _)
MatchesDe(r, txt, qs, ic) ==
  IF qs = {} THEN <<>>
  ELSE Luego(MatchEn(r, txt, Minimo(qs), ic)[1], LAMBDA m :
         <<m>> \o Luego({ q \in qs : q >= (IF m.fin > m.ini THEN m.fin
                                                            ELSE m.fin + 1) },
                        LAMBDA resto : MatchesDe(r, txt, resto, ic)))

Matches(r, txt, p, ic) ==
  Luego(Inicios(r, txt, p, ic), LAMBDA qs : MatchesDe(r, txt, qs, ic))

Trozo(txt, a, b) == IF a = 0 THEN <<>> ELSE SubSeq(txt, a, b - 1)

\* re.findall(patron, txt, re.IGNORECASE) of a pattern with one group
FindAll(r, txt) ==
  Luego(Matches(r, txt, 1, TRUE), LAMBDA ms :
    [idx \in 1..Len(ms) |-> Trozo(txt, ms[idx].a, ms[idx].b)])

\* re.sub(patron, reemplazo, txt): reemplazo is a sequence of characters and
\* of group references, written Ref1 for \1
Ref1 == "\\1"

RECURSIVE Expand(_, _, _)
Expand(rep, txt, m) ==
  IF rep = <<>> THEN <<>>
  ELSE (IF Head(rep) = Ref1 THEN Trozo(txt, m.a, m.b) ELSE <<Head(rep)>>)
       \o Luego(Tail(rep), LAMBDA resto : Expand(resto, txt, m))

RECURSIVE SubDesde(_, _, _, _, _)
SubDesde(ms, idx, rep, txt, p) ==
  IF idx > Len(ms) THEN SubSeq(txt, p, Len(txt))
  ELSE SubSeq(txt, p, ms[idx].ini - 1) \o Expand(rep, txt, ms[idx])
       \o SubDesde(ms, idx + 1, rep, txt, ms[idx].fin)

Sub(r, rep, txt) ==
  Luego(Matches(r, txt, 1, FALSE), LAMBDA ms : SubDesde(ms, 1, rep, txt, 1))

(***************************************************************************)
(* Numbers.                                                                 *)
(***************************************************************************)
RECURSIVE EnteroDe(_)
\* the value of a sequence of digits
EnteroDe(ds) ==
  IF ds = <<>> THEN 0
  ELSE 10 * Luego(SubSeq(ds, 1, Len(ds) - 1), EnteroDe)
       + ValorDigito(ds[Len(ds)])

\* the digits before the decimal point of digits[.digits]
ParteEntera(m) ==
  IF \E idx \in 1..Len(m) : m[idx] = "."
    THEN SubSeq(m, 1, (CHOOSE idx \in 1..Len(m) : m[idx] = ".") - 1)
    ELSE m

\* float(m) > 0 for m = digits[.digits]
EsPositivo(m) == \E idx \in 1..Len(m) : m[idx] \in Digitos \ {"0"}

\* int(float(m)) for m = digits[.digits]: the fraction is cut off
EnteroTruncado(m) == EnteroDe(ParteEntera(m))

RECURSIVE Ordenada(_)
\* sorted(list(S)) of a set of integers
Ordenada(S) ==
  IF S = {} THEN <<>>
  ELSE <<Minimo(S)>> \o Luego(S \ {Minimo(S)}, Ordenada)

(***************************************************************************)
(* extraer_cantidades_kits                                                  *)
(***************************************************************************)
kUNIDADE  == <<"U", "N", "I", "D", "A", "D", "E">>
kPIEZA    == <<"P", "I", "E", "Z", "A">>
kKILOS    == <<"K", "I", "L", "O", "S">>
kUND      == <<"U", "N", "D">>
kUN       == <<"U", "N">>
kNIDAD    == <<"N", "I", "D", "A", "D">>
kCANTIDAD == <<"C", "A", "N", "T", "I", "D", "A", "D", ":">>
kCANT     == <<"C", "A", "N", "T">>

rUnidades == Cat(<<Lit(kUNIDADE), Opc(Lit(<<"S">>))>>)       \* UNIDADES?
rDecimal  == Cat(<<Dig1, Opc(Cat(<<Lit(<<".">>), Dig1>>))>>)  \* \d+(?:\.\d+)?
rComaCant == Cat(<<Lit(<<",">>), Esp0, Lit(kCANTIDAD), Esp0>>) \* ,\s*CANTIDAD:\s*

patrones_cantidad ==
  << Cat(<<Grp(rDecimal), Esp0,
           Alt(<<rUnidades, Lit(kPIEZA), Lit(kKILOS), Lit(kUND)>>)>>),
     Cat(<<rComaCant, Grp(Dig1), Esp0, rUnidades>>),
     Cat(<<rComaCant, Grp(Dig1), Esp0, Lit(kUN), Opc(Lit(<<"D">>))>>),
     Cat(<<rComaCant, Opc(Lit(<<"(">>)), Grp(Dig1), Opc(Lit(<<")">>)), Esp0,
           Lit(<<"U">>), NoVer(Lit(kNIDAD))>>),
     Cat(<<rComaCant, Grp(Dig1)>>),
     Cat(<<Lit(kCANTIDAD), Esp0, Grp(rDecimal), Esp0,
           Alt(<<rUnidades, Lit(kUND)>>)>>),
     Cat(<<Lit(kCANT), Esp0, Lit(<<"(">>), Esp0, Grp(rDecimal), Esp0,
           Lit(<<"U">>), Esp0, Lit(<<")">>)>>) >>

\* the test of the loop body: cantidad > 0
CantidadValida(m) == EsPositivo(m)

\* the set cantidades after the loops over the patterns and their matches
ConjuntoCantidades(txt) ==
  UNION { { EnteroTruncado(ms[idx]) :
              idx \in { n \in 1..Len(ms) : CantidadValida(ms[n]) } } :
          ms \in { FindAll(patrones_cantidad[k], txt) :
                     k \in 1..Len(patrones_cantidad) } }

extraer_cantidades_kits(txt) ==
  LET cants == ConjuntoCantidades(txt)
  IN  IF cants = {} THEN <<0>> ELSE Ordenada(cants)

(***************************************************************************)
(* Text helpers.                                                            *)
(***************************************************************************)
\* str.strip()
\* the positions of txt that hold no white space
NoBlancos(txt) == { k \in 1..Len(txt) : txt[k] \notin Espacios }

LStrip(txt) ==
  IF NoBlancos(txt) = {} THEN <<>>
  ELSE SubSeq(txt, Minimo(NoBlancos(txt)), Len(txt))

RStrip(txt) ==
  IF NoBlancos(txt) = {} THEN <<>>
  ELSE SubSeq(txt, 1, Maximo(NoBlancos(txt)))

Strip(txt) == Luego(txt, LAMBDA t : Luego(LStrip(t), RStrip))

\* old occurs in txt at position p
EstaEn(old, txt, p) ==
  /\ p + Len(old) - 1 <= Len(txt)
  /\ \A idx \in 1..Len(old) : txt[p + idx - 1] = old[idx]

\* the test "old in txt"
Contiene(txt, old) == \E p \in 1..(Len(txt) + 1) : EstaEn(old, txt, p)

RECURSIVE ReplaceDesde(_, _, _, _)
ReplaceDesde(txt, old, new, p) ==
  Luego({ q \in p..Len(txt) : EstaEn(old, txt, q) }, LAMBDA qs :
    IF qs = {} THEN SubSeq(txt, p, Len(txt))
    ELSE SubSeq(txt, p, Minimo(qs) - 1) \o new
         \o Luego(Minimo(qs) + Len(old),
                  LAMBDA q : ReplaceDesde(txt, old, new, q)))

\* new before every character of txt and at its end
Intercala(txt, new) ==
  [k \in 1..(Len(txt) * (Len(new) + 1) + Len(new)) |->
     LET j == ((k - 1) % (Len(new) + 1)) + 1
     IN  IF j <= Len(new) THEN new[j] ELSE txt[((k - 1) \div (Len(new) + 1)) + 1]]

\* str.replace(old, new): every occurrence, left to right, none overlapping;
\* an empty old is found before every character and at the end
Replace(txt, old, new) ==
  IF old = <<>> THEN Intercala(txt, new) ELSE ReplaceDesde(txt, old, new, 1)

\* re.sub(r'\s+', ' ', txt).strip()
ColapsaEspacios(txt) == Luego(Sub(Esp1, <<" ">>, txt), Strip)

(***************************************************************************)
(* aplicar_expresiones_regulares_ordenadas.  expresiones_regulares is the   *)
(* mapping json.load builds: its entries [nombre, patron, reemplazo] in the *)
(* order of the file, no name twice.  patron is a syntax tree, PatronVacio  *)
(* for "", PatronInvalido for a text re.sub raises re.error on, or          *)
(* PatronNumero for a JSON number other than 0, on which re.sub raises      *)
(* TypeError.                                                               *)
(***************************************************************************)
PatronVacio    == [t |-> "vacio"]
PatronInvalido == [t |-> "invalido"]
PatronNumero   == [t |-> "numero"]

\* the keys of the mapping, and the value of a key
Nombres(expresiones) == { expresiones[k].nombre : k \in DOMAIN expresiones }
Config(expresiones, nombre_expr) ==
  expresiones[CHOOSE k \in DOMAIN expresiones : expresiones[k].nombre = nombre_expr]

orden_aplicacion ==
  << "normalizar_cantidad_unidad_decimales",
     "normalizar_cantidad_unidad_enteros",
     "separar_cantidad_producto",
     "normalizar_espacios_antes_producto",
     "normalizar_cantidad_punto_coma",
     "normalizar_cantidad_coma",
     "normalizar_punto_coma_mercancia",
     "limpiar_espacios_multiples",
     "patron_palabra_cantidad",
     "normalizar_cantidad_espacio" >>

\* one turn of the loop over orden_aplicacion
AplicaRegla(txt, expresiones, nombre_expr) ==
  IF nombre_expr \in Nombres(expresiones)
    THEN LET config == Config(expresiones, nombre_expr)
         IN  IF config.patron.t = "vacio" THEN txt
             ELSE IF config.patron.t \in {"invalido", "numero"} THEN txt
             ELSE Sub(config.patron, config.reemplazo, txt)
    ELSE txt

\* the exception a turn of the loop lets out: except re.error does not
\* catch the TypeError of a patron that is no text
ErrorRegla(expresiones, nombre_expr) ==
  IF /\ nombre_expr \in Nombres(expresiones)
     /\ Config(expresiones, nombre_expr).patron.t = "numero"
    THEN "TypeError" ELSE ""

\* the exception that leaves aplicar_expresiones_regulares_ordenadas, or ""
ErrorReglas(expresiones) ==
  IF \E k \in 1..Len(orden_aplicacion) :
       ErrorRegla(expresiones, orden_aplicacion[k]) # ""
    THEN "TypeError" ELSE ""

\* the loop run over the mapping instead of orden_aplicacion
RECURSIVE AplicaEnOrdenDelMapa(_, _, _)
AplicaEnOrdenDelMapa(txt, expresiones, idx) ==
  IF idx > Len(expresiones) THEN txt
  ELSE Luego(AplicaRegla(txt, expresiones, expresiones[idx].nombre),
             LAMBDA t : AplicaEnOrdenDelMapa(t, expresiones, idx + 1))

RECURSIVE AplicaDesde(_, _, _)
AplicaDesde(txt, expresiones, idx) ==
  IF idx > Len(orden_aplicacion) THEN txt
  ELSE Luego(AplicaRegla(txt, expresiones, orden_aplicacion[idx]),
             LAMBDA t : AplicaDesde(t, expresiones, idx + 1))

aplicar_expresiones_regulares_ordenadas(txt, expresiones) ==
  Luego(AplicaDesde(txt, expresiones, 1), Strip)

(***************************************************************************)
(* limpiar_y_normalizar_texto_kits                                          *)
(***************************************************************************)
ReemplazosSimbolos ==
  << <<<<"|">>, <<":">>>>, <<<<"_">>, <<":">>>>, <<<<"=">>, <<":">>>>,
     <<<<"(">>, <<" ">>>>, <<<<")">>, <<" ">>>>, <<<<"/">>, <<" ">>>> >>

RECURSIVE ReemplazaSimbolos(_, _)
ReemplazaSimbolos(txt, idx) ==
  IF idx > Len(ReemplazosSimbolos) THEN txt
  ELSE Luego(Replace(txt, ReemplazosSimbolos[idx][1], ReemplazosSimbolos[idx][2]),
             LAMBDA t : ReemplazaSimbolos(t, idx + 1))

limpiar_y_normalizar_texto_kits(txt, expresiones) ==
  Luego(ColapsaEspacios(Upper(txt)), LAMBDA t1 :
  Luego(ReemplazaSimbolos(t1, 1), LAMBDA t2 :
  Luego(aplicar_expresiones_regulares_ordenadas(t2, expresiones),
        ColapsaEspacios)))

(***************************************************************************)
(* aplicar_reemplazos_diccionario_kits.  diccionario maps a category name   *)
(* to a list of phrases (tag categories) or to a list of <<phrase, value>>  *)
(* pairs in insertion order (correction categories).                        *)
(***************************************************************************)
Etiquetas ==
  << <<"segun_variants",      <<"S", "E", "G", "U", "N">>>>,
     <<"producto_variants",   <<",", " ", "P", "R", "O", "D", "U", "C", "T", "O", ":">>>>,
     <<"marca_variants",      <<",", " ", "M", "A", "R", "C", "A", ":">>>>,
     <<"referencia_variants", <<",", " ", "R", "E", "F", "E", "R", "E", "N", "C", "I", "A", ":">>>>,
     <<"modelo_variants",     <<",", " ", "M", "O", "D", "E", "L", "O", ":">>>>,
     <<"cantidad_variants",   <<",", " ", "C", "A", "N", "T", "I", "D", "A", "D", ":">>>>,
     <<"cadena_variants",     <<",", " ", "C", "A", "D", "E", "N", "A", ":">>>>,
     <<"kit_variants",        <<",", " ", "K", "I", "T", ":">>>>,
     <<"paso_variants",       <<",", " ", "P", "A", "S", "O", ":">>>> >>

Correcciones ==
  << "marcas_conocidas", "partes_variants", "referencia_modelo_variants",
     "referencia_segun_variant" >>

\* diccionario.get(categoria, [])
Categoria(dicc, categoria) ==
  IF categoria \in DOMAIN dicc THEN dicc[categoria] ELSE <<>>

\* for variant in variants: if variant in texto: texto = texto.replace(...)
RECURSIVE ReemplazaVariantes(_, _, _, _)
ReemplazaVariantes(txt, variants, idx, etiqueta) ==
  IF idx > Len(variants) THEN txt
  ELSE Luego(IF Contiene(txt, variants[idx])
               THEN Replace(txt, variants[idx], etiqueta) ELSE txt,
             LAMBDA t : ReemplazaVariantes(t, variants, idx + 1, etiqueta))

RECURSIVE ReemplazaEtiquetas(_, _, _)
ReemplazaEtiquetas(txt, dicc, k) ==
  IF k > Len(Etiquetas) THEN txt
  ELSE Luego(ReemplazaVariantes(txt, Categoria(dicc, Etiquetas[k][1]),
                                1, Etiquetas[k][2]),
             LAMBDA t : ReemplazaEtiquetas(t, dicc, k + 1))

\* the loops over a correction map without the test "if reemplazo"
RECURSIVE ReemplazaMapaConVacios(_, _, _)
ReemplazaMapaConVacios(txt, pares, idx) ==
  IF idx > Len(pares) THEN txt
  ELSE Luego(IF Contiene(txt, pares[idx][1])
               THEN Replace(txt, pares[idx][1], pares[idx][2]) ELSE txt,
             LAMBDA t : ReemplazaMapaConVacios(t, pares, idx + 1))

\* the loops over a correction map: an empty value leaves the text alone
RECURSIVE ReemplazaMapa(_, _, _)
ReemplazaMapa(txt, pares, idx) ==
  IF idx > Len(pares) THEN txt
  ELSE Luego(IF Contiene(txt, pares[idx][1]) /\ pares[idx][2] # <<>>
               THEN Replace(txt, pares[idx][1], pares[idx][2]) ELSE txt,
             LAMBDA t : ReemplazaMapa(t, pares, idx + 1))

RECURSIVE ReemplazaCorrecciones(_, _, _)
ReemplazaCorrecciones(txt, dicc, k) ==
  IF k > Len(Correcciones) THEN txt
  ELSE Luego(ReemplazaMapa(txt, Categoria(dicc, Correcciones[k]), 1),
             LAMBDA t : ReemplazaCorrecciones(t, dicc, k + 1))

aplicar_reemplazos_diccionario_kits(txt, dicc) ==
  Luego(ReemplazaEtiquetas(txt, dicc, 1),
        LAMBDA t : ReemplazaCorrecciones(t, dicc, 1))

(***************************************************************************)
(* extraer_productos, extraer_marcas_kits, extraer_referencias_kits,        *)
(* extraer_modelos                                                          *)
(***************************************************************************)
kPRODUCTO   == <<"P", "R", "O", "D", "U", "C", "T", "O">>
kMARCA      == <<"M", "A", "R", "C", "A">>
kREFERENCIA == <<"R", "E", "F", "E", "R", "E", "N", "C", "I", "A">>
kMODELO     == <<"M", "O", "D", "E", "L", "O">>
kCANTIDADs  == <<"C", "A", "N", "T", "I", "D", "A", "D">>
kCADENA     == <<"C", "A", "D", "E", "N", "A">>
kKIT        == <<"K", "I", "T">>

NO_ESPECIFICADO == <<"N", "O", " ", "E", "S", "P", "E", "C", "I", "F", "I", "C", "A", "D", "O">>
NO_ESPECIFICADA == <<"N", "O", " ", "E", "S", "P", "E", "C", "I", "F", "I", "C", "A", "D", "A">>
NO_TIENE        == <<"N", "O", " ", "T", "I", "E", "N", "E">>

Puntuacion == {",", ".", ";", ":"}

\* ([^,]+?)(?=\s*,\s*(?:K1|K2|...|$))
ValorHastaEtiqueta(siguientes) ==
  Cat(<<Grp(RepLazy(NoCar({","}), 1, Sin)),
        Ver(Cat(<<Esp0, Lit(<<",">>), Esp0,
                  Alt([idx \in 1..(Len(siguientes) + 1) |->
                         IF idx <= Len(siguientes) THEN Lit(siguientes[idx])
                         ELSE Fin])>>))>>)

\* ([^,\.;:]+?)(?=\s*[,\.;:]|$)
ValorHastaPuntuacion ==
  Cat(<<Grp(RepLazy(NoCar(Puntuacion), 1, Sin)),
        Ver(Alt(<<Cat(<<Esp0, Car(Puntuacion)>>), Fin>>))>>)

\* the three patterns of the field whose tag is etiqueta
PatronesCampo(etiqueta, siguientes) ==
  << Cat(<<Lit(<<",">>), Esp0, Lit(etiqueta \o <<":">>), Esp0,
           ValorHastaEtiqueta(siguientes)>>),
     Cat(<<Lit(etiqueta \o <<":">>), Esp0, ValorHastaEtiqueta(siguientes)>>),
     Cat(<<Lit(<<",">>), Esp0, Lit(etiqueta \o <<":">>), Esp0,
           ValorHastaPuntuacion>>) >>

patrones_producto ==
  PatronesCampo(kPRODUCTO,
                <<kMARCA, kCANTIDADs, kREFERENCIA, kMODELO, kCADENA, kKIT>>)
patrones_marca ==
  PatronesCampo(kMARCA,
                <<kMODELO, kREFERENCIA, kCANTIDADs, kPRODUCTO, kCADENA, kKIT>>)
patrones_referencia ==
  PatronesCampo(kREFERENCIA,
                <<kMARCA, kCANTIDADs, kPRODUCTO, kMODELO, kCADENA, kKIT>>)
patrones_modelo ==
  PatronesCampo(kMODELO,
                <<kMARCA, kCANTIDADs, kPRODUCTO, kREFERENCIA, kCADENA, kKIT>>)

\* re.sub(r'[,;\.:\s]+$', '', match.strip())
LimpiaCandidato(m) ==
  Luego(Strip(m), LAMBDA c :
    Sub(Cat(<<Rep(Car(Puntuacion \cup Espacios), 1, Sin), Fin>>), <<>>, c))

\* the test without len(producto) > minimo
CandidatoSinMinimo(c, minimo, excluidos) ==
  c # <<>> /\ Upper(c) \notin excluidos

\* the test before productos.add(producto)
CandidatoValido(c, minimo, excluidos) ==
  c # <<>> /\ Len(c) > minimo /\ Upper(c) \notin excluidos

RECURSIVE SinRepetidos(_, _)
\* the elements of a sequence in the order of their first occurrence
SinRepetidos(s, vistos) ==
  IF s = <<>> THEN <<>>
  ELSE IF Head(s) \in vistos
    THEN Luego(Tail(s), LAMBDA resto : SinRepetidos(resto, vistos))
  ELSE <<Head(s)>>
       \o Luego(<<Tail(s), vistos \cup {Head(s)}>>,
                LAMBDA v : SinRepetidos(v[1], v[2]))

RECURSIVE Descubiertos(_, _, _, _, _)
\* the candidates added to the set, in the order the loops add them
Descubiertos(patrones, k, txt, minimo, excluidos) ==
  IF k > Len(patrones) THEN <<>>
  ELSE Luego(FindAll(patrones[k], txt), LAMBDA ms :
         SelectSeq([idx \in 1..Len(ms) |-> LimpiaCandidato(ms[idx])],
                   LAMBDA c : CandidatoValido(c, minimo, excluidos)))
       \o Descubiertos(patrones, k + 1, txt, minimo, excluidos)

Reverso(s) == [idx \in 1..Len(s) |-> s[Len(s) + 1 - idx]]

\* list(conjunto): the iteration order of a set of str follows the hashes of
\* its members, which the interpreter seeds afresh in every process; semilla
\* selects one of the orders a process can produce
ListaDe(descubiertos, sem) ==
  Luego(SinRepetidos(descubiertos, {}), LAMBDA unicos :
    IF sem = 0 THEN unicos ELSE Reverso(unicos))

\* list(conjunto) if conjunto else [centinela]
ListaOCentinela(descubiertos, sem, centinela) ==
  IF descubiertos = <<>> THEN <<centinela>> ELSE ListaDe(descubiertos, sem)

MinimoProducto == 2
MinimoCampo == 1

\* the candidates each extractor adds to its set, in the order it adds them
candidatos_producto(txt) ==
  Descubiertos(patrones_producto, 1, txt, MinimoProducto,
               {NO_TIENE, NO_ESPECIFICADO})
candidatos_marca(txt) ==
  Descubiertos(patrones_marca, 1, txt, MinimoCampo, {NO_TIENE, NO_ESPECIFICADA})
candidatos_referencia(txt) ==
  Descubiertos(patrones_referencia, 1, txt, MinimoCampo,
               {NO_TIENE, NO_ESPECIFICADA})
candidatos_modelo(txt) ==
  Descubiertos(patrones_modelo, 1, txt, MinimoCampo, {NO_TIENE, NO_ESPECIFICADO})

extraer_productos(txt, sem) ==
  Luego(candidatos_producto(txt), LAMBDA ds : ListaOCentinela(ds, sem, NO_ESPECIFICADO))
extraer_marcas_kits(txt, sem) ==
  Luego(candidatos_marca(txt), LAMBDA ds : ListaOCentinela(ds, sem, NO_ESPECIFICADA))
extraer_referencias_kits(txt, sem) ==
  Luego(candidatos_referencia(txt), LAMBDA ds : ListaOCentinela(ds, sem, NO_ESPECIFICADA))
extraer_modelos(txt, sem) ==
  Luego(candidatos_modelo(txt), LAMBDA ds : ListaOCentinela(ds, sem, NO_ESPECIFICADO))

(***************************************************************************)
(* detectar_cadenas                                                         *)
(***************************************************************************)
patrones_cadena ==
  << Lit(kCADENA),
     Lit(<<"C", "H", "A", "I", "N">>),
     Lit(<<"C", "A", "D", "E", "N", "I", "L", "L", "A">>),
     Cat(<<Lit(kKIT), Esp1, Lit(<<"A", "R", "R", "A", "S", "T", "R", "E">>)>>),
     Cat(<<Lit(kKIT), Esp1, Lit(<<"D", "E">>), Esp1, Lit(<<"A", "R", "R", "A", "S", "T", "R", "E">>)>>) >>

\* re.search without re.IGNORECASE
detectar_sin_ignorecase(txt) ==
  \E k \in 1..Len(patrones_cadena) : Search(patrones_cadena[k], txt, 1, FALSE) # <<>>

detectar_cadenas(txt) ==
  \E k \in 1..Len(patrones_cadena) : Search(patrones_cadena[k], txt, 1, TRUE) # <<>>

(***************************************************************************)
(* The declared quantity: re.sub(r"(\d+)[.,\s]00\b", r"\1", ...), float(),  *)
(* int().  The texts of the model hold no exponent and no digit separator.  *)
(***************************************************************************)
Signos == {"+", "-"}

patron_cantidad_limpia ==
  Cat(<<Grp(Dig1), Car({".", ","} \cup Espacios), Lit(<<"0", "0">>), Borde>>)

CantidadLimpia(declarada) ==
  Sub(patron_cantidad_limpia, <<Ref1>>, declarada)

SoloDigitos(s) == \A idx \in 1..Len(s) : s[idx] \in Digitos

\* s is digits[.[digits]] or .digits
EsDecimal(s) ==
  /\ \E idx \in 1..Len(s) : s[idx] \in Digitos
  /\ \A idx \in 1..Len(s) : s[idx] \in Digitos \cup {"."}
  /\ Cardinality({ idx \in 1..Len(s) : s[idx] = "." }) <= 1

\* float(s): [clase |-> "finito", neg, ent] (ent: the digits before the
\* point), [clase |-> "inf"], [clase |-> "nan"] or [clase |-> "ValueError"]
Float(s) ==
  Luego(Strip(s), LAMBDA t :
  Luego(IF t # <<>> /\ Head(t) \in Signos THEN Tail(t) ELSE t, LAMBDA cuerpo :
    LET neg == t # <<>> /\ Head(t) = "-"
    IN  IF Upper(cuerpo) \in {<<"I", "N", "F">>, <<"I", "N", "F", "I", "N", "I", "T", "Y">>}
          THEN [clase |-> "inf", neg |-> neg, ent |-> <<>>]
        ELSE IF Upper(cuerpo) = <<"N", "A", "N">>
          THEN [clase |-> "nan", neg |-> neg, ent |-> <<>>]
        ELSE IF EsDecimal(cuerpo)
          THEN [clase |-> "finito", neg |-> neg, ent |-> ParteEntera(cuerpo)]
        ELSE [clase |-> "ValueError", neg |-> neg, ent |-> <<>>]))

\* int(float(s)): [exc |-> "", v |-> n], or the exception int() or float()
\* raises: int() cuts the fraction off, raises ValueError on a NaN and
\* OverflowError on an infinity
IntFloat(s) ==
  Luego(Float(s), LAMBDA f :
    CASE f.clase = "finito" ->
           [exc |-> "", v |-> IF f.neg THEN 0 - EnteroDe(f.ent) ELSE EnteroDe(f.ent)]
      [] f.clase = "inf" -> [exc |-> "OverflowError", v |-> 0]
      [] OTHER -> [exc |-> "ValueError", v |-> 0])

\* the exceptions the try statement around the coercion catches
ExcepcionesCapturadas == {"ValueError", "TypeError"}

\* the try statement: cantidad_original_int, or the exception that leaves
\* procesar_linea_kits
CantidadOriginalInt(declarada) ==
  Luego(CantidadLimpia(declarada), LAMBDA cantidad_limpia :
  Luego(IntFloat(cantidad_limpia), LAMBDA r :
    IF r.exc \in ExcepcionesCapturadas THEN [exc |-> "", v |-> 0] ELSE r))

(***************************************************************************)
(* procesar_linea_kits: the steps between the extraction and the loop.      *)
(***************************************************************************)
Max2(a, b) == IF a >= b THEN a ELSE b
Min2(a, b) == IF a <= b THEN a ELSE b

(***************************************************************************)
(* extraer_pasos_medidas                                                    *)
(***************************************************************************)
N_A == <<"N", "/", "A">>

\* [^,]+? up to a comma or the end: ([^,]+?)(?=\s*,|$)
ValorHastaComa ==
  Cat(<<Grp(RepLazy(NoCar({","}), 1, Sin)),
        Ver(Alt(<<Cat(<<Esp0, Lit(<<",">>)>>), Fin>>))>>)

patrones_paso ==
  << Grp(Cat(<<Dig1, Lit(<<"H">>), Rep(Car({"-"} \cup Espacios), 0, Sin),
               Rep(Car(Digitos), 0, Sin), Opc(Lit(<<"L">>))>>)),
     Grp(Cat(<<Dig1, Esp0, Lit(<<"H">>)>>)),
     Grp(Cat(<<Dig1, Lit(<<".">>), Dig1, Esp0, Lit(<<"M", "M">>)>>)),
     Grp(Cat(<<Dig1, Lit(<<"M", "M">>)>>)),
     Cat(<<Lit(<<"P", "A", "S", "O", ":">>), Esp0, ValorHastaComa>>),
     Cat(<<Lit(<<"M", "E", "D", "I", "D", "A", ":">>), Esp0, ValorHastaComa>>) >>

\* the list pasos after the loops: the matches of each pattern in turn,
\* stripped, those of one character or none left out
RECURSIVE PasosDesde(_, _)
PasosDesde(txt, k) ==
  IF k > Len(patrones_paso) THEN <<>>
  ELSE Luego(FindAll(patrones_paso[k], txt), LAMBDA ms :
         SelectSeq([n \in 1..Len(ms) |-> Strip(ms[n])],
                   LAMBDA paso : Len(paso) > 1)
         \o PasosDesde(txt, k + 1))

extraer_pasos_medidas(txt) ==
  Luego(PasosDesde(txt, 1), LAMBDA pasos :
    IF pasos = <<>> THEN <<N_A>> ELSE pasos)

\* everything the extractors find in one description; the candidates of the
\* four text fields are kept in the order the extractors add them to their sets
Analisis(desc, expresiones, dicc) ==
  Luego(limpiar_y_normalizar_texto_kits(desc, expresiones), LAMBDA texto_limpio :
  Luego(aplicar_reemplazos_diccionario_kits(texto_limpio, dicc), LAMBDA texto :
    [texto_procesado |-> texto,
     productos   |-> candidatos_producto(texto),
     marcas      |-> candidatos_marca(texto),
     referencias |-> candidatos_referencia(texto),
     modelos     |-> candidatos_modelo(texto),
     cantidades  |-> extraer_cantidades_kits(texto),
     es_cadena   |-> detectar_cadenas(texto)]))

\* the fallback taken only for an empty list
CantidadesUsadasSoloVacia(extraidas, cantidad_int) ==
  IF extraidas = <<>> THEN <<cantidad_int>> ELSE extraidas

\* if not cantidades or cantidades == [0]: cantidades = [cantidad_original_int]
CantidadesUsadas(extraidas, cantidad_int) ==
  IF extraidas = <<>> \/ extraidas = <<0>> THEN <<cantidad_int>> ELSE extraidas

\* range(max_elementos + 1): one turn too many
MaxElementosMasUno(ps, ms, rs, mods, cs) ==
  Max2(Max2(Max2(Len(ps), Len(ms)), Max2(Len(rs), Len(mods))), 1) + 1

\* max_elementos = max(len(productos), len(marcas), len(referencias),
\*                     len(modelos), 1)
MaxElementos(ps, ms, rs, mods, cs) ==
  Max2(Max2(Max2(Len(ps), Len(ms)), Max2(Len(rs), Len(mods))), 1)

\* lista[i] if i < len(lista) else defecto: no clamp
ElementoSinTope(lista, idx, defecto) ==
  IF idx < Len(lista) THEN lista[idx + 1] ELSE defecto

\* lista[min(i, len(lista)-1)] if lista else defecto, i counted from 0
Elemento(lista, idx, defecto) ==
  IF lista # <<>> THEN lista[Min2(idx, Len(lista) - 1) + 1] ELSE defecto

\* the dict registro of slot i, built when the clock reads t; "SI" is
\* written for the accented word of the source
Registro(num, ps, ms, rs, mods, cs, cantidad_int, cadena, original, idx, t) ==
  [numero_aceptacion   |-> num,
   producto            |-> Elemento(ps, idx, NO_ESPECIFICADO),
   marca               |-> Elemento(ms, idx, NO_ESPECIFICADA),
   referencia          |-> Elemento(rs, idx, NO_ESPECIFICADA),
   modelo              |-> Elemento(mods, idx, NO_ESPECIFICADO),
   cantidad            |-> Elemento(cs, idx, cantidad_int),
   unidad              |-> "UNIDADES",
   es_cadena           |-> IF cadena THEN "SI" ELSE "NO",
   pasos_medidas       |-> N_A,
   cantidad_original   |-> original,
   fecha_procesamiento |-> t]

\* if registro not in registros: registros.append(registro)
AgregaSiNuevo(regs, registro) ==
  IF \E k \in 1..Len(regs) : regs[k] = registro
    THEN regs ELSE Append(regs, registro)

(***************************************************************************)
(* procesar_archivo_kits: the pieces of the file pass.                      *)
(***************************************************************************)
\* the parts of txt between the separators sep (str.split)
Split(txt, sep) ==
  Luego({ q \in 1..Len(txt) : txt[q] = sep }, LAMBDA ps :
    LET Corte(k) == IF k = 0 THEN 0
                    ELSE IF k > Cardinality(ps) THEN Len(txt) + 1
                    ELSE CHOOSE q \in ps : Cardinality({ x \in ps : x < q }) = k - 1
    IN  [k \in 1..(Cardinality(ps) + 1) |->
           SubSeq(txt, Corte(k - 1) + 1, Corte(k) - 1)])

\* sep.join(partes)
RECURSIVE Join(_, _)
Join(partes, sep) ==
  IF partes = <<>> THEN <<>>
  ELSE IF Len(partes) = 1 THEN partes[1]
  ELSE partes[1] \o <<sep>> \o Luego(Tail(partes), LAMBDA resto : Join(resto, sep))

\* if len(partes) >= 3
UnaParteMenos == 4 - 1

MinimoPartes == 4

\* partes[0] without strip()
NumeroAceptacionSinStrip(partes) == partes[1]

\* '|'.join(partes[1:-1]): the declared quantity left in the description
DescripcionConCantidad(partes) ==
  Luego(SubSeq(partes, 2, Len(partes) - 1), LAMBDA medio : Strip(Join(medio, "|")))

\* numero_aceptacion, descripcion and cantidad_original of a line with at
\* least MinimoPartes parts
NumeroAceptacion(partes)  == Strip(partes[1])
Descripcion(partes)       ==
  Luego(SubSeq(partes, 2, Len(partes) - 2), LAMBDA medio : Strip(Join(medio, "|")))
CantidadOriginal(partes)  == Strip(partes[Len(partes) - 1])

clave_unica(registro) ==
  <<registro.numero_aceptacion, registro.producto, registro.marca,
    registro.referencia, registro.modelo, registro.cantidad>>

\* the loop without registros_vistos.add(clave_unica)
EliminaSinRecordar(filas, registros_vistos) ==
  SelectSeq(filas, LAMBDA r : <<r.numero_aceptacion, r.producto, r.marca,
                                r.referencia, r.modelo, r.cantidad>>
                              \notin registros_vistos)

\* the loop over resultados that fills registros_unicos
RECURSIVE EliminaDuplicados(_, _)
EliminaDuplicados(filas, registros_vistos) ==
  IF filas = <<>> THEN <<>>
  ELSE IF clave_unica(Head(filas)) \in registros_vistos
         THEN Luego(Tail(filas),
                    LAMBDA resto : EliminaDuplicados(resto, registros_vistos))
         ELSE <<Head(filas)>>
              \o Luego(<<Tail(filas),
                         registros_vistos \cup {clave_unica(Head(filas))}>>,
                       LAMBDA v : EliminaDuplicados(v[1], v[2]))

\* the load with no return None: the content of the file, {} without one
cargar_diccionario_sin_none(archivo) ==
  [none |-> FALSE, valor |-> archivo.contenido]

\* cargar_diccionario_kits: None unless the file is there and is JSON
cargar_diccionario_kits(archivo) ==
  IF archivo.estado = "valido" THEN [none |-> FALSE, valor |-> archivo.contenido]
  ELSE [none |-> TRUE, valor |-> <<>>]

\* cargar_expresiones_regulares_kits: {} unless the file is there and is JSON
cargar_expresiones_regulares_kits(archivo) ==
  IF archivo.estado = "valido" THEN archivo.contenido ELSE <<>>

(***************************************************************************)
(* Inputs of the model.                                                     *)
(***************************************************************************)
MaxFragmentos == 2      \* fragments in a description of a single call
MaxLineas     == 2      \* lines of the input file
MaxReloj      == 2      \* clock readings run from 0 to MaxReloj (seconds)

\* a rule file: two rules of the order of application, one with a pattern
\* re cannot compile, one whose name is not in the order of application
Regla(nombre, patron, reemplazo) ==
  [nombre |-> nombre, patron |-> patron, reemplazo |-> reemplazo]

ExpresionesKits ==
  << Regla("limpiar_espacios_multiples", Esp1, <<" ">>),
     Regla("normalizar_punto_coma_mercancia", Lit(<<";">>), <<",">>),
     Regla("patron_palabra_cantidad", PatronInvalido, <<>>),
     Regla("eliminar_decimales", Cat(<<Lit(<<".">>), Dig1>>), <<>>) >>

\* a rule file with a rule whose patron is a number
ExpresionesNumero ==
  << Regla("limpiar_espacios_multiples", Esp1, <<" ">>),
     Regla("normalizar_cantidad_espacio", PatronNumero, <<>>) >>

\* a dictionary file: the tag of each field is put before its keyword
DiccionarioKits ==
  [producto_variants   |-> <<<<"P", "R", "O", "D", "U", "C", "T", "O", ":">>>>,
   marca_variants      |-> <<<<"M", "A", "R", "C", "A", ":">>>>,
   referencia_variants |-> <<<<"R", "E", "F", "E", "R", "E", "N", "C", "I", "A", ":">>>>,
   modelo_variants     |-> <<<<"M", "O", "D", "E", "L", "O", ":">>>>,
   cantidad_variants   |-> <<<<"C", "A", "N", "T", "I", "D", "A", "D", ":">>>>,
   marcas_conocidas    |-> << <<<<"K", " ", "T", " ", "M">>, <<"K", "T", "M">>>> >>]

Fragmentos ==
  { <<"p", "r", "o", "d", "u", "c", "t", "o", "=", " ", "a", "r", "o", " ">>,
    <<"P", "R", "O", "D", "U", "C", "T", "O", ":", " ", "E", "J", "E", " ", "M", "A", "R", "C", "A", ":", " ", "K", "T", "M", " ">>,
    <<"M", "A", "R", "C", "A", ":", " ", "A", "K", "T", " ">>,
    <<"R", "E", "F", "E", "R", "E", "N", "C", "I", "A", ":", " ", "R", "2", " ", "M", "O", "D", "E", "L", "O", ":", " ", "X", "1", " ">>,
    <<"C", "A", "N", "T", "I", "D", "A", "D", ":", " ", "5", " ", "U", "N", "I", "D", "A", "D", "E", "S", " ">>,
    <<"3", " ", "U", "N", "D", " ">>,
    <<"0", ".", "5", " ", "K", "I", "L", "O", "S", " ">>,
    <<"T", "O", "R", "N", "I", "L", "L", "O", " ">> }

RECURSIVE Une(_)
Une(fs) == IF fs = <<>> THEN <<>> ELSE Head(fs) \o Une(Tail(fs))

\* the descriptions of a single call: up to MaxFragmentos fragments
Descripciones ==
  { Strip(Une(fs)) : fs \in UNION { [1..k -> Fragmentos] : k \in 0..MaxFragmentos } }

\* the declared quantities of a single call
Declaradas == { <<"7">>, <<"5", ".", "0", "0">>, <<"-", "5">>, <<"i", "n", "f">>, <<"a", "b", "c">> }

Aceptaciones == { <<"A", "1">>, <<"B", "2">> }

Semillas == {0, 1}

\* the lines an input file is made of
LineasPosibles ==
  { <<" ", " ">>,
    <<"A", "1", "|", "o", "n", "l", "y", "t", "w", "o", "|", "f", "i", "e", "l", "d", "s">>,
    <<" ", "A", "1", " ", "|", "T", "O", "R", "N", "I", "L", "L", "O", "|", "7", "|", "U", "N", "D">>,
    <<"A", "1", "|", "T", "O", "R", "N", "I", "L", "L", "O", "|", "7", "|", "K", "G">>,
    <<"A", "1", "|", "T", "O", "R", "N", "I", "L", "L", "O", "|", "i", "n", "f", "|", "U", "N", "D">>,
    <<"B", "2", "|", "P", "R", "O", "D", "U", "C", "T", "O", ":", " ", "E", "J", "E", "|", "P", "R", "O", "D", "U", "C", "T", "O", ":", " ", "A", "R", "O", " ", "M", "A", "R", "C", "A", ":", " ", "K", "T", "M", "|", "-", "5", "|", "U", "N", "D">>,
    <<"B", "2", "|", "C", "A", "N", "T", "I", "D", "A", "D", ":", " ", "5", " ", "U", "N", "I", "D", "A", "D", "E", "S", " ", "3", " ", "U", "N", "D", "|", "2", ",", "0", "0", "|", "U", "N", "D">> }

\* the parts of the lines: linea.strip().split('|')
PartesDeLineas ==
  { Split(linea, "|") : linea \in { Strip(cruda) : cruda \in LineasPosibles } }

\* the descriptions of the lines with enough parts
DescripcionesDeLineas ==
  { Descripcion(partes) :
      partes \in { x \in PartesDeLineas : Len(x) >= MinimoPartes } }

\* descriptions with and without an indication of a chain
DescripcionesConIndicios ==
  { <<"p", "r", "o", "d", "u", "c", "t", "o", "=", " ", "a", "r", "o", " ", "P", "R", "O", "D", "U", "C", "T", "O", ":", " ", "E", "J", "E", " ", "M", "A", "R", "C", "A", ":", " ", "K", "T", "M", " ", "k", "i", "t", " ", " ", "d", "e", " ", "a", "r", "r", "a", "s", "t", "r", "e">>,
    <<"p", "r", "o", "d", "u", "c", "t", "o", "=", " ", "a", "r", "o", " ", "P", "R", "O", "D", "U", "C", "T", "O", ":", " ", "E", "J", "E", " ", "M", "A", "R", "C", "A", ":", " ", "K", "T", "M", " ", "K", "I", "T", "-", "A", "R", "R", "A", "S", "T", "R", "E">>,
    <<"C", "a", "d", "e", "n", "i", "l", "l", "a">>, <<"T", "O", "R", "N", "I", "L", "L", "O">>,
    <<"c", "a", "d", "e", "n", "a", " ", "4", "2", "8", "H", " ", "p", "a", "s", "o", ":", " ", "1", "2", ".", "7", " ", "m", "m">> }

\* Analisis under the configuration of the model, computed once for each
\* description the model can meet
TablaAnalisis ==
  [d \in Descripciones \cup DescripcionesDeLineas \cup DescripcionesConIndicios |->
     Analisis(d, ExpresionesKits, DiccionarioKits)]

\* the declared quantities of the lines with enough parts
DeclaradasDeLineas ==
  { CantidadOriginal(partes) :
      partes \in { x \in PartesDeLineas : Len(x) >= MinimoPartes } }

\* CantidadOriginalInt, computed once for each declared quantity the model
\* can meet
TablaCantidades ==
  [d \in Declaradas \cup DeclaradasDeLineas |-> CantidadOriginalInt(d)]

CantidadOriginalIntDe(declarada) ==
  IF /\ declarada \in Declaradas \cup DeclaradasDeLineas
     /\ declarada \in DOMAIN TablaCantidades
    THEN TablaCantidades[declarada]
    ELSE CantidadOriginalInt(declarada)

AnalisisDe(desc, expresiones, dicc) ==
  IF expresiones = ExpresionesKits /\ dicc = DiccionarioKits
     /\ desc \in Descripciones \cup DescripcionesDeLineas \cup DescripcionesConIndicios
     /\ desc \in DOMAIN TablaAnalisis
    THEN TablaAnalisis[desc]
    ELSE Analisis(desc, expresiones, dicc)

(***************************************************************************)
(* State.                                                                   *)
(***************************************************************************)
VARIABLES
  pc,                    \* where the program is
  semilla,               \* the hash seed of the process
  reloj,                 \* the last reading of the clock
  archivo_diccionario,   \* the dictionary file: [estado, contenido]
  archivo_expresiones,   \* the rule file: [estado, contenido]
  existe_entrada,        \* the input file can be opened
  diccionario,           \* procesar_archivo_kits: its locals
  expresiones_regulares,
  leidas,                \* the lines read so far
  resultados,
  lineas_procesadas,
  lineas_con_error,
  registros_unicos,
  salida,                \* the output file: <<>> while not written, else <<rows>>
  informe,               \* the figures printed at the end: <<>> or <<figures>>
  descripcion,           \* procesar_linea_kits: its arguments
  numero_aceptacion,
  cantidad_original,
  texto_procesado,       \* procesar_linea_kits: its locals
  productos,
  marcas,
  referencias,
  modelos,
  cantidades_extraidas,  \* what extraer_cantidades_kits returned
  cantidades,
  es_cadena,
  cantidad_original_int,
  max_elementos,
  i,
  registros,
  ranuras,               \* every registro the loop built, kept or not
  excepcion,             \* the exception that left procesar_linea_kits, or ""
  debug_file,            \* debug_kits.txt: its characters
  fn_texto,              \* a function applied on its own: its text,
  fn_reglas,             \* its rule mapping,
  fn_devuelto,           \* what it returned
  fn_error               \* and the exception it raised, or ""

vars_archivo ==
  <<archivo_diccionario, archivo_expresiones, existe_entrada, diccionario,
    expresiones_regulares, leidas, resultados, lineas_procesadas,
    lineas_con_error, registros_unicos, salida, informe>>

vars_argumentos == <<descripcion, numero_aceptacion, cantidad_original>>

vars_linea ==
  <<texto_procesado, productos, marcas, referencias, modelos,
    cantidades_extraidas, cantidades, es_cadena, cantidad_original_int,
    max_elementos, i, registros, ranuras, excepcion, debug_file>>

vars_funcion == <<fn_texto, fn_reglas, fn_devuelto, fn_error>>

vars == <<pc, semilla, reloj, vars_archivo, vars_argumentos, vars_linea,
          vars_funcion>>

ArchivoValido(contenido)  == [estado |-> "valido", contenido |-> contenido]
ArchivoAusente            == [estado |-> "ausente", contenido |-> <<>>]
\* a file that is there and is no JSON: json.load raises JSONDecodeError
ArchivoInvalido           == [estado |-> "invalido", contenido |-> <<>>]

SinLlamada ==
  /\ descripcion = <<>> /\ numero_aceptacion = <<>> /\ cantidad_original = <<>>
  /\ texto_procesado = <<>> /\ productos = <<>> /\ marcas = <<>>
  /\ referencias = <<>> /\ modelos = <<>> /\ cantidades_extraidas = <<>>
  /\ cantidades = <<>> /\ es_cadena = FALSE /\ cantidad_original_int = 0
  /\ max_elementos = 0 /\ i = 0 /\ registros = <<>> /\ ranuras = <<>>
  /\ excepcion = "" /\ debug_file = <<>>

SinFuncion ==
  /\ fn_texto = <<>> /\ fn_reglas = <<>> /\ fn_devuelto = <<>> /\ fn_error = ""

SinArchivo ==
  /\ leidas = <<>> /\ resultados = <<>> /\ lineas_procesadas = 0
  /\ lineas_con_error = 0 /\ registros_unicos = <<>> /\ salida = <<>>
  /\ informe = <<>>

\* what the loop over productos writes to debug_kits.txt: a line for each
RECURSIVE DatosDebug(_)
DatosDebug(ps) ==
  IF ps = <<>> THEN <<>>
  ELSE <<"P", "r", "o", "d", "u", "c", "t", "o", ":", " ">> \o Head(ps) \o <<"\n">> \o DatosDebug(Tail(ps))

(***************************************************************************)
(* procesar_linea_kits                                                      *)
(***************************************************************************)
\* from the entry to the start of the loop: normalisation, dictionary,
\* extractors, the declared quantity, the fallback, the debug file
Extraer ==
  /\ UNCHANGED vars_funcion
  /\ pc = "linea"
  /\ IF ErrorReglas(expresiones_regulares) # ""
       THEN /\ pc' = "excepcion"
            /\ excepcion' = ErrorReglas(expresiones_regulares)
            /\ UNCHANGED <<texto_procesado, productos, marcas, referencias,
                           modelos, cantidades_extraidas, es_cadena,
                           cantidades, cantidad_original_int, max_elementos,
                           debug_file>>
       ELSE
         \E a \in {AnalisisDe(descripcion, expresiones_regulares, diccionario)},
            coi \in {CantidadOriginalIntDe(cantidad_original)} :
         \E ps \in {ListaOCentinela(a.productos, semilla, NO_ESPECIFICADO)},
            ms \in {ListaOCentinela(a.marcas, semilla, NO_ESPECIFICADA)},
            rs \in {ListaOCentinela(a.referencias, semilla, NO_ESPECIFICADA)},
            mods \in {ListaOCentinela(a.modelos, semilla, NO_ESPECIFICADO)},
            cs \in {CantidadesUsadas(a.cantidades, coi.v)} :
             /\ texto_procesado' = a.texto_procesado
             /\ productos' = ps
             /\ marcas' = ms
             /\ referencias' = rs
             /\ modelos' = mods
             /\ cantidades_extraidas' = a.cantidades
             /\ es_cadena' = a.es_cadena
             /\ IF coi.exc # ""
                  THEN /\ pc' = "excepcion"
                       /\ excepcion' = coi.exc
                       /\ UNCHANGED <<cantidades, cantidad_original_int,
                                      max_elementos, debug_file>>
                  ELSE /\ pc' = "ranuras"
                       /\ excepcion' = ""
                       /\ cantidad_original_int' = coi.v
                       /\ cantidades' = cs
                       /\ debug_file' = DatosDebug(ps)
                       /\ max_elementos' = MaxElementos(ps, ms, rs, mods, cs)
  /\ i' = 0
  /\ registros' = <<>>
  /\ ranuras' = <<>>
  /\ UNCHANGED <<semilla, reloj, vars_archivo, vars_argumentos>>

\* one turn of a loop whose record takes pasos_medidas from the list
\* extraer_pasos_medidas returned
RanuraConPasos ==
  /\ UNCHANGED vars_funcion
  /\ pc = "ranuras"
  /\ i < max_elementos
  /\ \E t \in reloj..Min2(reloj + 1, MaxReloj) :
       \E registro \in
           { [Registro(numero_aceptacion, productos, marcas, referencias,
                       modelos, cantidades, cantidad_original_int, es_cadena,
                       cantidad_original, i, t)
                EXCEPT !.pasos_medidas =
                  Elemento(extraer_pasos_medidas(texto_procesado), i, N_A)] } :
           /\ registros' = AgregaSiNuevo(registros, registro)
           /\ ranuras' = Append(ranuras, registro)
           /\ reloj' = t
  /\ i' = i + 1
  /\ UNCHANGED <<pc, semilla, vars_archivo, vars_argumentos, texto_procesado,
                 productos, marcas, referencias, modelos, cantidades_extraidas,
                 cantidades, es_cadena, cantidad_original_int, max_elementos,
                 excepcion, debug_file>>

\* one turn of the loop: datetime.now() reads t, not before the last reading
Ranura ==
  /\ UNCHANGED vars_funcion
  /\ pc = "ranuras"
  /\ i < max_elementos
  /\ \E t \in reloj..Min2(reloj + 1, MaxReloj) :
       LET registro == Registro(numero_aceptacion, productos, marcas,
                                referencias, modelos, cantidades,
                                cantidad_original_int, es_cadena,
                                cantidad_original, i, t)
       IN  /\ registros' = AgregaSiNuevo(registros, registro)
           /\ ranuras' = Append(ranuras, registro)
           /\ reloj' = t
  /\ i' = i + 1
  /\ UNCHANGED <<pc, semilla, vars_archivo, vars_argumentos, texto_procesado,
                 productos, marcas, referencias, modelos, cantidades_extraidas,
                 cantidades, es_cadena, cantidad_original_int, max_elementos,
                 excepcion, debug_file>>

\* return registros
Retornar ==
  /\ UNCHANGED vars_funcion
  /\ pc = "ranuras"
  /\ i = max_elementos
  /\ pc' = "retorno"
  /\ UNCHANGED <<semilla, reloj, vars_archivo, vars_argumentos, vars_linea>>

(***************************************************************************)
(* procesar_archivo_kits                                                    *)
(***************************************************************************)
\* the configuration is loaded; the run ends here without a dictionary,
\* without rules or without the input file
CargarConfiguracion ==
  /\ UNCHANGED vars_funcion
  /\ pc = "inicio"
  /\ LET d == cargar_diccionario_kits(archivo_diccionario)
         e == cargar_expresiones_regulares_kits(archivo_expresiones)
     IN  IF d.none
           THEN pc' = "fin" /\ UNCHANGED <<diccionario, expresiones_regulares>>
         ELSE IF DOMAIN e = {}
           THEN /\ pc' = "fin"
                /\ diccionario' = d.valor
                /\ expresiones_regulares' = e
         ELSE /\ pc' = IF existe_entrada THEN "leer" ELSE "fin"
              /\ diccionario' = d.valor
              /\ expresiones_regulares' = e
  /\ UNCHANGED <<semilla, reloj, archivo_diccionario, archivo_expresiones,
                 existe_entrada, leidas, resultados, lineas_procesadas,
                 lineas_con_error, registros_unicos, salida, informe,
                 vars_argumentos, vars_linea>>

\* one line of the file: skipped when blank, an error when it has too few
\* parts, else handed to procesar_linea_kits
LeerLinea ==
  /\ UNCHANGED vars_funcion
  /\ pc = "leer"
  /\ Len(leidas) < MaxLineas
  /\ \E cruda \in LineasPosibles :
       \E linea \in {Strip(cruda)} : \E partes \in {Split(linea, "|")} :
           /\ leidas' = Append(leidas, cruda)
           /\ IF linea = <<>>
                THEN UNCHANGED <<pc, lineas_con_error, vars_argumentos>>
              ELSE IF Len(partes) >= MinimoPartes
                THEN /\ pc' = "linea"
                     /\ numero_aceptacion' = NumeroAceptacion(partes)
                     /\ descripcion' = Descripcion(partes)
                     /\ cantidad_original' = CantidadOriginal(partes)
                     /\ UNCHANGED lineas_con_error
              ELSE /\ lineas_con_error' = lineas_con_error + 1
                   /\ UNCHANGED <<pc, vars_argumentos>>
  /\ UNCHANGED <<semilla, reloj, archivo_diccionario, archivo_expresiones,
                 existe_entrada, diccionario, expresiones_regulares, resultados,
                 lineas_procesadas, registros_unicos, salida, informe,
                 vars_linea>>

\* procesar_linea_kits returned: resultados.extend, lineas_procesadas += 1
Continuar ==
  /\ UNCHANGED vars_funcion
  /\ pc = "retorno"
  /\ resultados' = resultados \o registros
  /\ lineas_procesadas' = lineas_procesadas + 1
  /\ pc' = "leer"
  /\ UNCHANGED <<semilla, reloj, archivo_diccionario, archivo_expresiones,
                 existe_entrada, diccionario, expresiones_regulares, leidas,
                 lineas_con_error, registros_unicos, salida, informe,
                 vars_argumentos, vars_linea>>

\* except Exception: continue, the line not counted
CapturarSinContar ==
  /\ UNCHANGED vars_funcion
  /\ pc = "excepcion"
  /\ pc' = "leer"
  /\ UNCHANGED <<semilla, reloj, vars_archivo, vars_argumentos, vars_linea>>

\* except Exception: lineas_con_error += 1; continue
Capturar ==
  /\ UNCHANGED vars_funcion
  /\ pc = "excepcion"
  /\ lineas_con_error' = lineas_con_error + 1
  /\ pc' = "leer"
  /\ UNCHANGED <<semilla, reloj, archivo_diccionario, archivo_expresiones,
                 existe_entrada, diccionario, expresiones_regulares, leidas,
                 resultados, lineas_procesadas, registros_unicos, salida,
                 informe, vars_argumentos, vars_linea>>

\* the file is at its end: the duplicates are removed
Deduplicar ==
  /\ UNCHANGED vars_funcion
  /\ pc = "leer"
  /\ registros_unicos' = EliminaDuplicados(resultados, {})
  /\ pc' = "escribir"
  /\ UNCHANGED <<semilla, reloj, archivo_diccionario, archivo_expresiones,
                 existe_entrada, diccionario, expresiones_regulares, leidas,
                 resultados, lineas_procesadas, lineas_con_error, salida,
                 informe, vars_argumentos, vars_linea>>

\* the input file cannot be decoded at the next line: the exception leaves
\* the loop over the file, is printed, and the run returns
ErrorLectura ==
  /\ UNCHANGED vars_funcion
  /\ pc = "leer"
  /\ Len(leidas) < MaxLineas
  /\ pc' = "fin"
  /\ UNCHANGED <<semilla, reloj, vars_archivo, vars_argumentos, vars_linea>>

\* the figures of the final print calls
Informe(unicos, procesadas) ==
  [lineas_procesadas |-> procesadas,
   total_productos   |-> Len(unicos),
   productos_cadenas |-> Cardinality({ k \in 1..Len(unicos) : unicos[k].es_cadena = "SI" }),
   marcas_unicas     |-> Cardinality({ unicos[k].marca : k \in
                           { n \in 1..Len(unicos) : unicos[n].marca # NO_ESPECIFICADA } })]

\* the output file is written and the figures printed, unless the file
\* cannot be written
Escribir ==
  /\ UNCHANGED vars_funcion
  /\ pc = "escribir"
  /\ \E escrito \in BOOLEAN :
       IF escrito
         THEN /\ salida' = <<registros_unicos>>
              /\ informe' = <<Informe(registros_unicos, lineas_procesadas)>>
         ELSE UNCHANGED <<salida, informe>>
  /\ pc' = "fin"
  /\ UNCHANGED <<semilla, reloj, archivo_diccionario, archivo_expresiones,
                 existe_entrada, diccionario, expresiones_regulares, leidas,
                 resultados, lineas_procesadas, lineas_con_error,
                 registros_unicos, vars_argumentos, vars_linea>>

(***************************************************************************)
(* Specifications.                                                          *)
(***************************************************************************)
\* a run of procesar_archivo_kits
Init ==
  /\ pc = "inicio"
  /\ semilla \in Semillas
  /\ reloj = 0
  /\ archivo_diccionario \in {ArchivoAusente, ArchivoInvalido,
                             ArchivoValido(DiccionarioKits)}
  /\ archivo_expresiones \in {ArchivoAusente, ArchivoInvalido,
                             ArchivoValido(ExpresionesKits),
                             ArchivoValido(ExpresionesNumero)}
  /\ existe_entrada \in BOOLEAN
  /\ diccionario = <<>>
  /\ expresiones_regulares = <<>>
  /\ SinArchivo
  /\ SinLlamada
  /\ SinFuncion

Next ==
  \/ CargarConfiguracion
  \/ LeerLinea
  \/ Extraer
  \/ Ranura
  \/ Retornar
  \/ Continuar
  \/ Capturar
  \/ Deduplicar
  \/ ErrorLectura
  \/ Escribir

Spec == Init /\ [][Next]_vars

\* one call of procesar_linea_kits
InitLinea ==
  /\ pc = "linea"
  /\ semilla \in Semillas
  /\ reloj = 0
  /\ archivo_diccionario = ArchivoValido(DiccionarioKits)
  /\ archivo_expresiones = ArchivoValido(ExpresionesKits)
  /\ existe_entrada = TRUE
  /\ diccionario = DiccionarioKits
  /\ expresiones_regulares = ExpresionesKits
  /\ SinArchivo
  /\ descripcion \in Descripciones
  /\ numero_aceptacion \in Aceptaciones
  /\ cantidad_original \in Declaradas
  /\ texto_procesado = <<>> /\ productos = <<>> /\ marcas = <<>>
  /\ referencias = <<>> /\ modelos = <<>> /\ cantidades_extraidas = <<>>
  /\ cantidades = <<>> /\ es_cadena = FALSE /\ cantidad_original_int = 0
  /\ max_elementos = 0 /\ i = 0 /\ registros = <<>> /\ ranuras = <<>>
  /\ excepcion = "" /\ debug_file = <<>>
  /\ SinFuncion

NextLinea == Extraer \/ Ranura \/ Retornar

SpecLinea == InitLinea /\ [][NextLinea]_vars

(***************************************************************************)
(* Properties of one call of procesar_linea_kits (SpecLinea).               *)
(***************************************************************************)
\* the call is over: it returned or an exception left it
Terminada == pc \in {"retorno", "excepcion"}

\* C1: every call of procesar_linea_kits returns at least one record
C1_SiempreUnRegistro == Terminada => (pc = "retorno" /\ Len(registros) >= 1)

\* C1: a call that an exception leaves returns no record
C1_LlamadaSinRegistro ==
  pc = "excepcion" /\ excepcion = "OverflowError" /\ registros = <<>>

PalabrasClave == {kPRODUCTO, kMARCA, kREFERENCIA, kMODELO, kCANTIDADs}

\* no field keyword occurs in the description, in any letter case
SinPalabraClave(desc) == \A w \in PalabrasClave : ~Contiene(Upper(desc), w)

RegistroCentinela(r) ==
  /\ r.producto = NO_ESPECIFICADO /\ r.marca = NO_ESPECIFICADA
  /\ r.referencia = NO_ESPECIFICADA /\ r.modelo = NO_ESPECIFICADO

\* C2: a description without field keyword gives exactly one record, all
\* sentinels, whose cantidad is the declared quantity coerced to an integer
C2_SinPalabraClaveUnCentinela ==
  (Terminada /\ SinPalabraClave(descripcion)) =>
    /\ pc = "retorno"
    /\ Len(registros) = 1
    /\ RegistroCentinela(registros[1])
    /\ registros[1].cantidad = CantidadOriginalInt(cantidad_original).v

\* C2: a description without field keyword whose record carries a quantity
\* that is not the declared one
C2_CantidadDelTexto ==
  /\ pc = "retorno" /\ SinPalabraClave(descripcion)
  /\ Len(registros) = 1 /\ RegistroCentinela(registros[1])
  /\ cantidad_original = <<"7">> /\ registros[1].cantidad = 3

\* C3: the loop builds max(len of the five lists, 1) records, so every
\* quantity of the list is the cantidad of some slot
C3_RanurasCuentanCantidades ==
  pc = "retorno" =>
    /\ Len(ranuras) = Max2(Max2(Max2(Len(productos), Len(marcas)),
                                Max2(Len(referencias), Len(modelos))),
                           Max2(Len(cantidades), 1))
    /\ \A k \in 1..Len(cantidades) :
         \E n \in 1..Len(ranuras) : ranuras[n].cantidad = cantidades[k]

\* C3: two quantities are extracted and the only slot carries the first
C3_CantidadSinRanura ==
  /\ pc = "retorno" /\ cantidades = <<3, 5>> /\ Len(ranuras) = 1
  /\ ranuras[1].cantidad = 3

\* the clamp law written out: the element of lista the slot n (from 1) takes
Tomado(lista, n) == lista[IF n <= Len(lista) THEN n ELSE Len(lista)]

\* C4: every slot takes from each list the element at min(i, len - 1), the
\* last element of a list that is exhausted
C4_LeyDelTope ==
  \A n \in 1..Len(ranuras) :
    /\ ranuras[n].producto   = Tomado(productos, n)
    /\ ranuras[n].marca      = Tomado(marcas, n)
    /\ ranuras[n].referencia = Tomado(referencias, n)
    /\ ranuras[n].modelo     = Tomado(modelos, n)
    /\ ranuras[n].cantidad   = Tomado(cantidades, n)

\* C4: two products and one brand: the second slot repeats the brand
C4_MarcaRepetida ==
  /\ pc = "retorno" /\ Len(productos) = 2 /\ Len(marcas) = 1
  /\ Len(ranuras) = 2
  /\ ranuras[1].producto # ranuras[2].producto
  /\ ranuras[1].marca = marcas[1] /\ ranuras[2].marca = marcas[1]

\* the identity tuple of a record
Identidad(r) ==
  <<r.numero_aceptacion, r.producto, r.marca, r.referencia, r.modelo, r.cantidad>>

\* the positions of a sequence of records that hold the first record of
\* their identity
Primeros(rs) ==
  { k \in 1..Len(rs) : \A n \in 1..(k - 1) : Identidad(rs[n]) # Identidad(rs[k]) }

\* the m-th smallest member of a set of numbers
Enesimo(S, m) == CHOOSE q \in S : Cardinality({ y \in S : y < q }) = m - 1

\* us holds, in their order, the first records of each identity of rs
PrimerasApariciones(us, rs) ==
  /\ Len(us) = Cardinality(Primeros(rs))
  /\ \A m \in 1..Len(us) : us[m] = rs[Enesimo(Primeros(rs), m)]

\* C5: the records of one declaration have pairwise different identity
\* tuples and are the first slots of each identity, in the order of the slots,
\* whatever the clock read when the slots were built
C5_UnaIdentidadUnRegistro ==
  /\ \A a, b \in 1..Len(registros) :
       a # b => Identidad(registros[a]) # Identidad(registros[b])
  /\ PrimerasApariciones(registros, ranuras)

\* C5: two records are returned that were built at different clock readings
C5_DosRegistrosDosLecturas ==
  /\ pc = "retorno" /\ Len(registros) = 2
  /\ registros[1].fecha_procesamiento # registros[2].fecha_procesamiento

\* C6: the list handed to the writer holds no two records of one key
\* (numero_aceptacion, producto, marca, referencia, modelo, cantidad) and is
\* made of the first record of each key, in the order of the results
C6_UnPrimeroPorClave ==
  pc = "escribir" =>
    /\ \A a, b \in 1..Len(registros_unicos) :
         a # b => Identidad(registros_unicos[a]) # Identidad(registros_unicos[b])
    /\ PrimerasApariciones(registros_unicos, resultados)

\* C6: a record of a later line was dropped for the key of an earlier one
C6_DuplicadoEntreLineas ==
  /\ pc = "escribir" /\ Len(resultados) = 2 /\ Len(registros_unicos) = 1
  /\ Identidad(resultados[1]) = Identidad(resultados[2])
  /\ registros_unicos[1] = resultados[1]

\* the text of a line before its first bar, trimmed
PrimerCampo(linea) ==
  LET barras == { k \in 1..Len(linea) : linea[k] = "|" }
  IN  Strip(IF barras = {} THEN linea ELSE SubSeq(linea, 1, Minimo(barras) - 1))

\* C7: every record carries the trimmed first field of the line it came from:
\* the records of the call in progress carry that of the line just read, and
\* no result carries a number no line read so far begins with
C7_NumeroDeLaLinea ==
  /\ pc \in {"ranuras", "retorno"} =>
       \A k \in 1..Len(registros) :
         registros[k].numero_aceptacion = PrimerCampo(leidas[Len(leidas)])
  /\ \A k \in 1..Len(resultados) :
       \E n \in 1..Len(leidas) :
         resultados[k].numero_aceptacion = PrimerCampo(leidas[n])

\* C7: the record of a line whose first field has blanks around it
C7_NumeroRecortado ==
  /\ pc = "retorno" /\ Len(registros) >= 1
  /\ leidas[Len(leidas)][1] = " "
  /\ registros[1].numero_aceptacion = <<"A", "1">>

\* C8: the cantidad of every record is a non-negative integer
C8_CantidadNoNegativa ==
  \A k \in 1..Len(registros) : registros[k].cantidad \in Nat

\* C8: a declared quantity of -5 reaches the record
C8_CantidadNegativa ==
  /\ pc = "retorno" /\ cantidad_original = <<"-", "5">>
  /\ Len(registros) = 1 /\ registros[1].cantidad = -5

\* C9: extraer_cantidades_kits returns [0] or a strictly ascending list of
\* integers that are all at least 1
C9_CantidadesAscendentesDesdeUno ==
  pc \in {"ranuras", "retorno"} =>
    \/ cantidades_extraidas = <<0>>
    \/ /\ \A k \in 1..Len(cantidades_extraidas) : cantidades_extraidas[k] >= 1
       /\ \A k \in 1..(Len(cantidades_extraidas) - 1) :
            cantidades_extraidas[k] < cantidades_extraidas[k + 1]

\* C9: a decimal below one is truncated to 0 and listed before a real quantity
C9_CeroEntreCantidades ==
  /\ pc = "retorno" /\ cantidades_extraidas = <<0, 3>>

\* C10: when the text yields only [0] every record has the declared quantity
\* coerced to an integer, and when it yields a real quantity every record has
\* a quantity of the text
C10_DeclaradaSoloSinTexto ==
  pc \in {"ranuras", "retorno"} =>
    \A k \in 1..Len(ranuras) :
      IF cantidades_extraidas = <<0>>
      THEN ranuras[k].cantidad = cantidad_original_int
      ELSE \E n \in 1..Len(cantidades_extraidas) :
             ranuras[k].cantidad = cantidades_extraidas[n]

\* C10: no quantity in the text, the record takes the declared 5.00 as 5
C10_DeclaradaCoercida ==
  /\ pc = "retorno" /\ cantidades_extraidas = <<0>>
  /\ cantidad_original = <<"5", ".", "0", "0">> /\ cantidad_original_int = 5
  /\ Len(registros) = 1 /\ registros[1].cantidad = 5

\* C11: the coercion of the declared quantity never raises out of
\* procesar_linea_kits, and a declared text that is not a finite number
\* gives 0
C11_CoercionNuncaFalla ==
  Terminada =>
    /\ excepcion = ""
    /\ cantidad_original \in {<<"a", "b", "c">>, <<"i", "n", "f">>} => cantidad_original_int = 0

\* C11: the declared quantity inf ends the call with an OverflowError
C11_InfinitoEscapa ==
  /\ pc = "excepcion" /\ cantidad_original = <<"i", "n", "f">>
  /\ excepcion = "OverflowError"

(***************************************************************************)
(* aplicar_expresiones_regulares_ordenadas on its own (SpecReglas): a text  *)
(* and a mapping of up to MaxReglas rules, in every order of insertion.     *)
(***************************************************************************)
MaxReglas == 3

ReglasPosibles ==
  { Regla("normalizar_cantidad_coma", Lit(<<",">>), <<";">>),
    Regla("normalizar_punto_coma_mercancia", Lit(<<";">>), <<",">>),
    Regla("limpiar_espacios_multiples", Esp1, <<" ">>),
    Regla("separar_cantidad_producto", PatronVacio, <<"x">>),
    Regla("patron_palabra_cantidad", PatronInvalido, <<>>),
    Regla("normalizar_cantidad_espacio", PatronNumero, <<>>),
    Regla("eliminar_decimales", Cat(<<Lit(<<".">>), Dig1>>), <<>>) }

MapasReglas ==
  { m \in UNION { [1..n -> ReglasPosibles] : n \in 0..MaxReglas } :
      \A a, b \in DOMAIN m : a # b => m[a].nombre # m[b].nombre }

TextosReglas ==
  { <<"a", ",", "b", ";", "c">>, <<" ", "1", ".", "5", "0", " ", " ", "k", "g", " ">>, <<"2", ";", "3", ",", "4", ".", "0">>, <<"x">>, <<>> }

InitReglas ==
  /\ pc = "reglas"
  /\ semilla = 0
  /\ reloj = 0
  /\ archivo_diccionario = ArchivoAusente
  /\ archivo_expresiones = ArchivoAusente
  /\ existe_entrada = FALSE
  /\ diccionario = <<>>
  /\ expresiones_regulares = <<>>
  /\ SinArchivo
  /\ SinLlamada
  /\ fn_texto \in TextosReglas
  /\ fn_reglas \in MapasReglas
  /\ fn_devuelto = <<>>
  /\ fn_error = ""

\* one call: the text returned, or the exception raised
AplicarReglas ==
  /\ pc = "reglas"
  /\ fn_error' = ErrorReglas(fn_reglas)
  /\ fn_devuelto' = IF ErrorReglas(fn_reglas) = ""
                      THEN aplicar_expresiones_regulares_ordenadas(fn_texto, fn_reglas)
                      ELSE <<>>
  /\ pc' = "aplicado"
  /\ UNCHANGED <<semilla, reloj, vars_archivo, vars_argumentos, vars_linea,
                 fn_texto, fn_reglas>>

SpecReglas == InitReglas /\ [][AplicarReglas]_vars

\* the members of a sequence
Miembros(m) == { m[k] : k \in DOMAIN m }

\* the mappings with the entries of m in every order of insertion
Reordenes(m) == { q \in [DOMAIN m -> Miembros(m)] : Miembros(q) = Miembros(m) }

\* the names of the order of application
NombresDelOrden == { orden_aplicacion[k] : k \in DOMAIN orden_aplicacion }

\* m without the entries whose name is not in the order of application
SoloDelOrden(m) == SelectSeq(m, LAMBDA e : e.nombre \in NombresDelOrden)

\* C12: the result is the same for every insertion order of the same rules,
\* a rule whose name is not in the order of application changes nothing, and
\* with no rule of the order of application the text is only trimmed
C12_OrdenFijoDeReglas ==
  (pc = "aplicado" /\ fn_error = "") =>
    /\ \A q \in Reordenes(fn_reglas) :
         aplicar_expresiones_regulares_ordenadas(fn_texto, q) = fn_devuelto
    /\ aplicar_expresiones_regulares_ordenadas(fn_texto, SoloDelOrden(fn_reglas))
         = fn_devuelto
    /\ SoloDelOrden(fn_reglas) = <<>> => fn_devuelto = Strip(fn_texto)

\* C12: the semicolon rule was inserted before the comma rule and a rule
\* outside the order of application after them; the comma rule still ran first
C12_InsertadasAlReves ==
  /\ pc = "aplicado" /\ fn_texto = <<"a", ",", "b", ";", "c">> /\ Len(fn_reglas) = 3
  /\ fn_reglas[1].nombre = "normalizar_punto_coma_mercancia"
  /\ fn_reglas[2].nombre = "normalizar_cantidad_coma"
  /\ fn_reglas[3].nombre = "eliminar_decimales"
  /\ fn_devuelto = <<"a", ",", "b", ",", "c">>

\* m without the rules re.sub cannot apply
SinReglasMalas(m) ==
  SelectSeq(m, LAMBDA e : e.patron.t \notin {"invalido", "numero"})

\* C13: no rule makes aplicar_expresiones_regulares_ordenadas raise: a rule
\* that cannot be applied is skipped and the others are applied
C13_ReglaMalaSeSalta ==
  pc = "aplicado" =>
    /\ fn_error = ""
    /\ fn_devuelto =
         aplicar_expresiones_regulares_ordenadas(fn_texto, SinReglasMalas(fn_reglas))

\* C13: a rule whose patron is a number makes the call raise TypeError
C13_PatronNumeroLanza ==
  /\ pc = "aplicado" /\ fn_error = "TypeError"
  /\ \E k \in DOMAIN fn_reglas :
       /\ fn_reglas[k].nombre = "normalizar_cantidad_espacio"
       /\ fn_reglas[k].patron = PatronNumero

(***************************************************************************)
(* extractor_llantas: limpiar_y_normalizar_texto and, on its own, two       *)
(* passes of it over a text (SpecSimbolos).                                 *)
(***************************************************************************)
\* the order of application of extractor_llantas
orden_aplicacion_llantas ==
  << "normalizar_cantidad_unidad_decimales",
     "normalizar_cantidad_unidad_enteros",
     "separar_cantidad_producto",
     "normalizar_espacios_antes_producto",
     "normalizar_cantidad_punto_coma",
     "normalizar_cantidad_coma",
     "eliminar_decimales",
     "normalizar_punto_coma_mercancia",
     "limpiar_espacios_multiples",
     "patron_palabra_cantidad",
     "normalizar_cantidad_espacio" >>

RECURSIVE AplicaDesdeLlantas(_, _, _)
AplicaDesdeLlantas(txt, expresiones, idx) ==
  IF idx > Len(orden_aplicacion_llantas) THEN txt
  ELSE Luego(AplicaRegla(txt, expresiones, orden_aplicacion_llantas[idx]),
             LAMBDA t : AplicaDesdeLlantas(t, expresiones, idx + 1))

aplicar_expresiones_regulares_ordenadas_llantas(txt, expresiones) ==
  Luego(AplicaDesdeLlantas(txt, expresiones, 1), Strip)

\* the texto.replace(old, new) calls, in their order
ReemplazosLlantas ==
  << <<<<"|">>, <<":">>>>,
     <<<<"_">>, <<":">>>>,
     <<<<"=">>, <<":">>>>,
     <<<<"(">>, <<" ">>>>,
     <<<<")">>, <<" ">>>>,
     <<<<"P", "A", "I", "S">>, <<",", " ", "P", "A", "I", "S">>>>,
     <<<<"P", ".", " ", "O", "R", "I", "G", "E", "N", ":">>, <<",", " ", "P", "A", "I", "S", ":">>>>,
     <<<<"C", "A", "N", "T", "I", "D", "A", "D", " ", "D", "E", "C", "L", "A", "R", "A", "D", "A", ":", " ">>, <<",", " ", "D", "E", "C", "L", "A", "R", "A", "D", "A", " ", ":">>>>,
     <<<<"C", "A", "N", "T", "I", "D", "A", "D", " ", "F", "A", "C", "T", "U", "R", "A", "D", "A", ":">>, <<",", " ", "C", "A", "N", "T", "I", "D", "A", "D", ":", " ">>>>,
     <<<<"N", " ", "O", " ", "T", "I", "E", "N", "E">>, <<"N", "O", " ", "T", "I", "E", "N", "E">>>>,
     <<<<"N", "O", " ", "T", "I", " ", "E", "N", "E">>, <<"N", "O", " ", "T", "I", "E", "N", "E">>>>,
     <<<<"N", "O", " ", "T", "I", "E", "N", " ", "E">>, <<"N", "O", " ", "T", "I", "E", "N", "E">>>>,
     <<<<"N", "O", " ", "T", "I", "E", " ", "N", "E">>, <<"N", "O", " ", "T", "I", "E", "N", "E">>>>,
     <<<<" ", "W", "C">>, <<",", " ", "W", "C">>>>,
     <<<<"R", "E", "F", "E", "R", "E", "N", "C", "I", "A", ":", " ", "A", "R", "A", "N", "C", "E", "L", "A", "R", "I", "A">>, <<",", " ", "A", "R", "A", "N", "C", "E", "L">>>>,
     <<<<"R", "E", "F", "E", "R", "E", "N", "C", "I", "A", ":", " ", "A", "R", "A", "N", "C", "E", "L", "A", "R", "I", " ", "A">>, <<",", " ", "A", "R", "A", "N", "C", "E", "L">>>>,
     <<<<"P", "A", "R", "T", "E", " ", "N", "U", "M", "E", "R", "O", " ">>, <<>>>>,
     <<<<"P", "A", " ", "R", "T", "E", " ", "N", "U", "M", "E", "R", "O", " ">>, <<>>>>,
     <<<<"U", "N", "I", "D", "A", "D", "E", "S", ":">>, <<"U", "N", "I", "D", "A", "D", "E", "S", ".">>>>,
     <<<<"M", "A", "R", "C", "A", ":", " ", "I", "M", "P", "O", "R", "T", "A", "D", "O", "R", ":">>, <<>>>>,
     <<<<"M", "O", "D", "E", "L", "O">>, <<",", " ", "M", "O", "D", "E", "L", "O">>>>,
     <<<<"I", "T", "E", "M">>, <<",", " ", "I", "T", "E", "M">>>>,
     <<<<",", " ", "M", "A", "R", "C", "A", ":", " ", "S", "E", "G", "U", "N", " ", "F", "A", "C", "T", "U", "R", "A">>, <<",", " ", "M", "A", "R", "C", "A", ":", " ">>>>,
     <<<<"S", "E", "R", "I", "A", "L", ":">>, <<",", " ", "S", "E", "R", "I", "A", "L", ":">>>>,
     <<<<"Y", "M", "A", "R", "C", "A", ":">>, <<"Y", ",", " ", "M", "A", "R", "C", "A", ":", " ">>>>,
     <<<<"U", "6", "2", "2", "4">>, <<"Q", "U", "6", "2", "2", "4">>>>,
     <<<<"U", " ", "6", "2", "2", "4">>, <<"Q", "U", "6", "2", "2", "4">>>>,
     <<<<"S", "E", "G", "U", "N", " ", "O", "R", "D", "E", "N", " ", "D", "E", " ", "C", "O", "M", "P", "R", "A">>, <<>>>>,
     <<<<".", " ", "U", "S", "O">>, <<",", " ", "U", "S", "O">>>>,
     <<<<" ", "U", "S", "O">>, <<",", " ", "U", "S", "O">>>>,
     <<<<" ", "B", "A", "T", "E", "R", "I", "A">>, <<",", " ", "B", "A", "T", "E", "R", "I", "A">>>>,
     <<<<";">>, <<",">>>>,
     <<<<"/">>, <<",">>>> >>

RECURSIVE ReemplazaLlantas(_, _)
ReemplazaLlantas(txt, idx) ==
  IF idx > Len(ReemplazosLlantas) THEN txt
  ELSE Luego(Replace(txt, ReemplazosLlantas[idx][1], ReemplazosLlantas[idx][2]),
             LAMBDA t : ReemplazaLlantas(t, idx + 1))

limpiar_y_normalizar_texto(txt, expresiones) ==
  Luego(ReemplazaLlantas(txt, 1), LAMBDA t1 :
  Luego(aplicar_expresiones_regulares_ordenadas_llantas(t1, expresiones), LAMBDA t2 :
  ColapsaEspacios(Upper(t2))))

MaxTrozos == 2

Trozos ==
  { <<"P", "A", "I", "S", ":", " ", "C", "H", "I", "N", "A", " ">>, <<"M", "O", "D", "E", "L", "O", ":", " ", "X", "1", " ">>, <<"a", "|", "b", " ">>, <<"(", "2", "0", "5", "/", "5", "5", ")", " ">>, <<"U", "6", "2", "2", "4", " ">>,
    <<"L", "L", "A", "N", "T", "A", " ">>, <<"m", "a", "r", "c", "a", ":", " ", "k", "e", "n", "d", "a", ";", " ">>, <<"N", " ", "O", " ", "T", "I", "E", "N", "E", " ">>, <<"x", "_", "y", "=", "z", " ">>, <<" ", "U", "S", "O", " ">> }

TextosLlantas ==
  { Une(fs) : fs \in UNION { [1..k -> Trozos] : k \in 0..MaxTrozos } }

InitSimbolos ==
  /\ pc = "limpiar"
  /\ semilla = 0
  /\ reloj = 0
  /\ archivo_diccionario = ArchivoAusente
  /\ archivo_expresiones = ArchivoAusente
  /\ existe_entrada = FALSE
  /\ diccionario = <<>>
  /\ expresiones_regulares = <<>>
  /\ SinArchivo
  /\ SinLlamada
  /\ fn_texto \in TextosLlantas
  /\ fn_reglas = <<>>
  /\ fn_devuelto = <<>>
  /\ fn_error = ""

\* the first pass, over the text
LimpiarTexto ==
  /\ pc = "limpiar"
  /\ fn_devuelto' = limpiar_y_normalizar_texto(fn_texto, fn_reglas)
  /\ pc' = "limpio"
  /\ UNCHANGED <<semilla, reloj, vars_archivo, vars_argumentos, vars_linea,
                 fn_texto, fn_reglas, fn_error>>

\* the second pass, over the output of the first
LimpiarSalida ==
  /\ pc = "limpio"
  /\ fn_texto' = fn_devuelto
  /\ fn_devuelto' = limpiar_y_normalizar_texto(fn_devuelto, fn_reglas)
  /\ pc' = "relimpio"
  /\ UNCHANGED <<semilla, reloj, vars_archivo, vars_argumentos, vars_linea,
                 fn_reglas, fn_error>>

SpecSimbolos == InitSimbolos /\ [][LimpiarTexto \/ LimpiarSalida]_vars

\* C14: limpiar_y_normalizar_texto with no rules, applied to its own output,
\* returns that output unchanged
C14_SegundaPasadaIgual == pc = "relimpio" => fn_devuelto = fn_texto

\* C14: the second pass puts a second comma before PAIS
C14_SegundaComa ==
  /\ pc = "relimpio"
  /\ fn_texto = <<",", " ", "P", "A", "I", "S", ":", " ", "C", "H", "I", "N", "A">>
  /\ fn_devuelto = <<",", " ", ",", " ", "P", "A", "I", "S", ":", " ", "C", "H", "I", "N", "A">>

(***************************************************************************)
(* The extractors of the four text fields on their own (SpecExtractores):   *)
(* a tagged text of up to MaxPiezas pieces.                                 *)
(***************************************************************************)
MaxPiezas == 2

Piezas ==
  { <<",", " ", "P", "R", "O", "D", "U", "C", "T", "O", ":", " ", "C", "A", "S", "C", "O", ".", ";", " ">>, <<",", " ", "M", "A", "R", "C", "A", ":", " ", "M", "O", "T", "U", "L", " ">>,
    <<",", " ", "P", "R", "O", "D", "U", "C", "T", "O", ":", " ", "A", "B", " ", ",", " ", "M", "A", "R", "C", "A", ":", " ", "K", " ">>, <<",", " ", "M", "A", "R", "C", "A", ":", " ", "n", "o", " ", "t", "i", "e", "n", "e", " ", ",", " ", "M", "O", "D", "E", "L", "O", ":", " ", "X", "1", ":", " ">>,
    <<",", " ", "R", "E", "F", "E", "R", "E", "N", "C", "I", "A", ":", " ", "R", "2", " ", ",", " ", "R", "E", "F", "E", "R", "E", "N", "C", "I", "A", ":", " ", "R", "2", ",", " ">>, <<"k", "i", "t", " ", " ", "d", "e", " ", "a", "r", "r", "a", "s", "t", "r", "e", " ">>,
    <<"C", "a", "d", "e", "n", "i", "l", "l", "a", " ">>, <<",", " ", "P", "R", "O", "D", "U", "C", "T", "O", ":", " ", "E", "J", "E", ",", " ", "P", "R", "O", "D", "U", "C", "T", "O", ":", " ", "A", "R", "O", ",", " ">>, <<"K", "I", "T", "-", "A", "R", "R", "A", "S", "T", "R", "E", " ">>,
    <<",", " ", "M", "A", "R", "C", "A", ":", " ", "A", "K", ".", "T", " ", ",", " ", "M", "O", "D", "E", "L", "O", ":", " ", "X", "1", " ">> }

TextosEtiquetados ==
  { Une(fs) : fs \in UNION { [1..k -> Piezas] : k \in 0..MaxPiezas } }

InitExtractores ==
  /\ pc = "extraer"
  /\ semilla \in Semillas
  /\ reloj = 0
  /\ archivo_diccionario = ArchivoAusente
  /\ archivo_expresiones = ArchivoAusente
  /\ existe_entrada = FALSE
  /\ diccionario = <<>>
  /\ expresiones_regulares = <<>>
  /\ SinArchivo
  /\ SinLlamada
  /\ fn_texto \in TextosEtiquetados
  /\ fn_reglas = <<>>
  /\ fn_devuelto = <<>>
  /\ fn_error = ""

\* the four extractors called on the text
AplicarExtractores ==
  /\ pc = "extraer"
  /\ fn_devuelto' = [productos   |-> extraer_productos(fn_texto, semilla),
                     marcas      |-> extraer_marcas_kits(fn_texto, semilla),
                     referencias |-> extraer_referencias_kits(fn_texto, semilla),
                     modelos     |-> extraer_modelos(fn_texto, semilla)]
  /\ pc' = "extraido"
  /\ UNCHANGED <<semilla, reloj, vars_archivo, vars_argumentos, vars_linea,
                 fn_texto, fn_reglas, fn_error>>

SpecExtractores == InitExtractores /\ [][AplicarExtractores]_vars

\* a list an extractor may return: the sentinel alone when nothing was kept,
\* else texts of the input that end in no separator or blank, are longer
\* than the minimum and are not excluded
ListaDeCampo(lista, halla, centinela, minimo, excluidos) ==
  /\ lista # <<>>
  /\ IF halla = <<>> THEN lista = <<centinela>>
     ELSE \A k \in 1..Len(lista) :
            /\ lista[k] # <<>>
            /\ lista[k][Len(lista[k])] \notin Puntuacion \cup Espacios
            /\ lista[k][1] \notin Espacios
            /\ Len(lista[k]) > minimo
            /\ Upper(lista[k]) \notin excluidos
            /\ Contiene(fn_texto, lista[k])

\* C15: each of the four extractors returns a list that is not empty: its
\* sentinel alone when no candidate is kept, else only candidates without
\* trailing punctuation or blank, longer than the minimum (2 for the product,
\* 1 for the others) and not excluded
C15_ListasFiltradas ==
  pc = "extraido" =>
    /\ ListaDeCampo(fn_devuelto.productos, candidatos_producto(fn_texto),
                    NO_ESPECIFICADO, 2, {NO_TIENE, NO_ESPECIFICADO})
    /\ ListaDeCampo(fn_devuelto.marcas, candidatos_marca(fn_texto),
                    NO_ESPECIFICADA, 1, {NO_TIENE, NO_ESPECIFICADA})
    /\ ListaDeCampo(fn_devuelto.referencias, candidatos_referencia(fn_texto),
                    NO_ESPECIFICADA, 1, {NO_TIENE, NO_ESPECIFICADA})
    /\ ListaDeCampo(fn_devuelto.modelos, candidatos_modelo(fn_texto),
                    NO_ESPECIFICADO, 1, {NO_TIENE, NO_ESPECIFICADO})

\* C15: AB and K are too short, no tiene is excluded, X1 is kept without
\* the colon after it
C15_CortosYExcluidos ==
  /\ pc = "extraido"
  /\ fn_texto = <<",", " ", "P", "R", "O", "D", "U", "C", "T", "O", ":", " ", "A", "B", " ", ",", " ", "M", "A", "R", "C", "A", ":", " ", "K", " ", ",", " ", "M", "A", "R", "C", "A", ":", " ", "n", "o", " ", "t", "i", "e", "n", "e", " ", ",", " ", "M", "O", "D", "E", "L", "O", ":", " ", "X", "1", ":", " ">>
  /\ fn_devuelto.productos = <<NO_ESPECIFICADO>>
  /\ fn_devuelto.marcas = <<NO_ESPECIFICADA>>
  /\ fn_devuelto.modelos = <<<<"X", "1">>>>

\* C16: the list of each extractor holds its candidates once each, in the
\* order of their discovery, whatever the process
C16_OrdenDeDescubrimiento ==
  pc = "extraido" =>
    /\ candidatos_producto(fn_texto) # <<>> =>
         fn_devuelto.productos = SinRepetidos(candidatos_producto(fn_texto), {})
    /\ candidatos_marca(fn_texto) # <<>> =>
         fn_devuelto.marcas = SinRepetidos(candidatos_marca(fn_texto), {})
    /\ candidatos_referencia(fn_texto) # <<>> =>
         fn_devuelto.referencias = SinRepetidos(candidatos_referencia(fn_texto), {})
    /\ candidatos_modelo(fn_texto) # <<>> =>
         fn_devuelto.modelos = SinRepetidos(candidatos_modelo(fn_texto), {})

\* C16: EJE is discovered before ARO and the list has ARO first
C16_OrdenDelConjunto ==
  /\ pc = "extraido"
  /\ fn_texto = <<",", " ", "P", "R", "O", "D", "U", "C", "T", "O", ":", " ", "E", "J", "E", ",", " ", "P", "R", "O", "D", "U", "C", "T", "O", ":", " ", "A", "R", "O", ",", " ">>
  /\ fn_devuelto.productos = <<<<"A", "R", "O">>, <<"E", "J", "E">>>>

(***************************************************************************)
(* More properties of one call of procesar_linea_kits (SpecLinea).          *)
(***************************************************************************)
\* C17: when the product, brand, reference, model and quantity lists have one
\* element each, the call returns exactly one record, which carries them
C17_UnaListaUnRegistro ==
  ( /\ Terminada
    /\ Len(productos) = 1 /\ Len(marcas) = 1 /\ Len(referencias) = 1
    /\ Len(modelos) = 1 /\ Len(cantidades_extraidas) = 1 ) =>
    /\ pc = "retorno" /\ Len(registros) = 1
    /\ registros[1].producto = productos[1]
    /\ registros[1].marca = marcas[1]
    /\ registros[1].referencia = referencias[1]
    /\ registros[1].modelo = modelos[1]
    /\ registros[1].cantidad = cantidades[1]

\* C17: one product, one brand and the quantity 5 are found and the declared
\* quantity inf ends the call without a record
C17_UnaListaSinRegistro ==
  /\ pc = "excepcion" /\ cantidad_original = <<"i", "n", "f">>
  /\ productos = <<<<"E", "J", "E">>>> /\ marcas = <<<<"K", "T", "M">>>>
  /\ Len(referencias) = 1 /\ Len(modelos) = 1
  /\ cantidades_extraidas = <<5>>
  /\ registros = <<>>

\* the example of C17 with a declared quantity that can be coerced
C17_EjemploUnRegistro ==
  /\ pc = "retorno" /\ cantidad_original = <<"5", ".", "0", "0">>
  /\ productos = <<<<"E", "J", "E">>>> /\ marcas = <<<<"K", "T", "M">>>>
  /\ cantidades_extraidas = <<5>>
  /\ Len(registros) = 1
  /\ registros[1].producto = <<"E", "J", "E">> /\ registros[1].marca = <<"K", "T", "M">>
  /\ registros[1].cantidad = 5

(***************************************************************************)
(* detectar_cadenas on its own and within procesar_linea_kits               *)
(* (SpecCadenas): a text of up to MaxIndicios pieces, or a description.     *)
(***************************************************************************)
MaxIndicios == 2

Indicios ==
  { <<"C", "a", "d", "e", "n", "a", " ">>, <<"c", "h", "a", "i", "n", " ">>, <<"C", "A", "D", "E", "N", "I", "L", "L", "A", " ">>, <<"K", "i", "t", " ", "\t", "a", "r", "r", "a", "s", "t", "r", "e", " ">>,
    <<"k", "i", "t", " ", "d", "e", " ", " ", "A", "r", "r", "a", "s", "t", "r", "e", " ">>, <<"K", "I", "T", "-", "A", "R", "R", "A", "S", "T", "R", "E", " ">>, <<"K", "I", "T", "A", "R", "R", "A", "S", "T", "R", "E", " ">>,
    <<"K", "I", "T", " ", "D", "E", "L", " ", "A", "R", "R", "A", "S", "T", "R", "E", " ">>, <<"C", "A", "D", "E", "N", " ", "A", " ">> }

TextosConIndicios ==
  { Une(fs) : fs \in UNION { [1..k -> Indicios] : k \in 0..MaxIndicios } }

InitCadenas ==
  /\ semilla \in Semillas
  /\ reloj = 0
  /\ archivo_diccionario = ArchivoValido(DiccionarioKits)
  /\ archivo_expresiones = ArchivoValido(ExpresionesKits)
  /\ existe_entrada = TRUE
  /\ diccionario = DiccionarioKits
  /\ expresiones_regulares = ExpresionesKits
  /\ SinArchivo
  /\ texto_procesado = <<>> /\ productos = <<>> /\ marcas = <<>>
  /\ referencias = <<>> /\ modelos = <<>> /\ cantidades_extraidas = <<>>
  /\ cantidades = <<>> /\ es_cadena = FALSE /\ cantidad_original_int = 0
  /\ max_elementos = 0 /\ i = 0 /\ registros = <<>> /\ ranuras = <<>>
  /\ excepcion = "" /\ debug_file = <<>>
  /\ fn_reglas = <<>> /\ fn_devuelto = <<>> /\ fn_error = ""
  /\ \/ /\ pc = "detectar"
        /\ fn_texto \in TextosConIndicios
        /\ descripcion = <<>> /\ numero_aceptacion = <<>>
        /\ cantidad_original = <<>>
     \/ /\ pc = "linea"
        /\ fn_texto = <<>>
        /\ descripcion \in DescripcionesConIndicios
        /\ numero_aceptacion \in Aceptaciones
        /\ cantidad_original \in Declaradas

\* detectar_cadenas called on the text
AplicarDetector ==
  /\ pc = "detectar"
  /\ fn_devuelto' = detectar_cadenas(fn_texto)
  /\ pc' = "detectado"
  /\ UNCHANGED <<semilla, reloj, vars_archivo, vars_argumentos, vars_linea,
                 fn_texto, fn_reglas, fn_error>>

SpecCadenas ==
  InitCadenas /\ [][AplicarDetector \/ Extraer \/ Ranura \/ Retornar]_vars

\* where palabra ends when it stands in txt after the white space, one
\* character of it at least, that starts at position p
Tras(txt, p, palabra) ==
  { b + Len(palabra) : b \in
      { q \in (p + 1)..Len(txt) :
          /\ \A n \in p..(q - 1) : txt[n] \in Espacios
          /\ EstaEn(palabra, txt, q) } }

\* one of the five indications of a chain is in txt, in any letter case
HayIndicio(txt) ==
  LET may  == Upper(txt)
      kits == { a + Len(kKIT) : a \in
                  { q \in 1..Len(may) : EstaEn(kKIT, may, q) } }
  IN  \/ Contiene(may, <<"C", "A", "D", "E", "N", "A">>)
      \/ Contiene(may, <<"C", "H", "A", "I", "N">>)
      \/ Contiene(may, <<"C", "A", "D", "E", "N", "I", "L", "L", "A">>)
      \/ \E p \in kits : Tras(may, p, <<"A", "R", "R", "A", "S", "T", "R", "E">>) # {}
      \/ \E p \in kits : \E q \in Tras(may, p, <<"D", "E">>) : Tras(may, q, <<"A", "R", "R", "A", "S", "T", "R", "E">>) # {}

\* C18: detectar_cadenas is true exactly for a text with CADENA, CHAIN,
\* CADENILLA, KIT ARRASTRE or KIT DE ARRASTRE in it, in any letter case, and
\* every record of a declaration carries the answer for its processed text
C18_CadenaSiHayIndicio ==
  /\ pc = "detectado" => (fn_devuelto <=> HayIndicio(fn_texto))
  /\ pc \in {"ranuras", "retorno"} =>
       /\ es_cadena <=> HayIndicio(texto_procesado)
       /\ \A k \in 1..Len(ranuras) :
            ranuras[k].es_cadena = IF HayIndicio(texto_procesado) THEN "SI" ELSE "NO"

\* C18: two records of a declaration of a kit de arrastre, both marked
C18_DosRegistrosDeCadena ==
  /\ pc = "retorno" /\ Len(registros) = 2
  /\ Contiene(texto_procesado, <<"K", "I", "T", " ", "D", "E", " ", "A", "R", "R", "A", "S", "T", "R", "E">>)
  /\ registros[1].es_cadena = "SI" /\ registros[2].es_cadena = "SI"

(***************************************************************************)
(* Properties of a run of procesar_archivo_kits (Spec).                     *)
(***************************************************************************)
\* the line just read, its being blank, and the number of its parts
UltimaLeida == leidas'[Len(leidas')]
EsBlanca(cruda) == \A k \in 1..Len(cruda) : cruda[k] \in Espacios
NumeroDePartes(cruda) == Cardinality({ k \in 1..Len(cruda) : cruda[k] = "|" }) + 1

\* only the error counter moves, by one, and the loop goes on
SoloCuentaError ==
  /\ lineas_con_error' = lineas_con_error + 1
  /\ resultados' = resultados
  /\ lineas_procesadas' = lineas_procesadas
  /\ pc' = "leer"

\* C19: a line that is not blank and has fewer than 4 parts, or whose
\* processing raises, adds one to the error counter, leaves the results and
\* the processed counter as they were and lets the loop go on; a blank line
\* changes no counter and no result
C19_LineaMalaSoloCuentaError ==
  [][ /\ Len(leidas') = Len(leidas) + 1 =>
           /\ EsBlanca(UltimaLeida) =>
                /\ lineas_con_error' = lineas_con_error
                /\ lineas_procesadas' = lineas_procesadas
                /\ resultados' = resultados
                /\ pc' = "leer"
           /\ (~EsBlanca(UltimaLeida) /\ NumeroDePartes(UltimaLeida) < 4) =>
                SoloCuentaError
      /\ (pc = "excepcion" /\ pc' # "excepcion") => SoloCuentaError
      /\ (pc \in {"linea", "ranuras"} /\ pc' # "retorno") =>
           /\ lineas_con_error' = lineas_con_error
           /\ lineas_procesadas' = lineas_procesadas
           /\ resultados' = resultados
    ]_vars

\* C19: a line of three parts was counted as an error and the line after it
\* was processed
C19_ErrorYLuegoProcesada ==
  /\ Len(leidas) = 2
  /\ leidas[1] = <<"A", "1", "|", "o", "n", "l", "y", "t", "w", "o", "|", "f", "i", "e", "l", "d", "s">>
  /\ lineas_con_error = 1 /\ lineas_procesadas = 1
  /\ resultados # <<>>

\* a run whose steps are taken as long as one can be: the program is one
\* sequential process and nothing suspends it
SpecJusto == Init /\ [][Next]_vars /\ WF_vars(Next)

\* C20: once the input file is open the run reaches the removal of
\* duplicates and the writing, whatever happens while its lines are read
C20_SiempreLlegaAEscribir == (pc = "leer") ~> (pc = "escribir")

\* C20: the run is over with results of processed lines, and neither the
\* removal of duplicates nor the writing took place
C20_LecturaAbortada ==
  /\ pc = "fin" /\ Len(leidas) >= 1 /\ lineas_procesadas >= 1
  /\ resultados # <<>> /\ registros_unicos = <<>>
  /\ salida = <<>> /\ informe = <<>>


(***************************************************************************)
(* The configuration files of a run of procesar_archivo_kits (Spec).        *)
(***************************************************************************)
\* the rule file is missing or is no JSON, the dictionary and the input
\* file are there
SoloFaltanReglas ==
  /\ archivo_expresiones.estado # "valido"
  /\ archivo_diccionario.estado = "valido"
  /\ existe_entrada

\* C21: with a rule file that is missing or is not valid JSON, the run goes
\* on without rules: from the loading of the configuration it enters the loop
\* over the lines of the input file
C21_SinReglasSigueLeyendo ==
  [][(pc = "inicio" /\ SoloFaltanReglas) => pc' = "leer"]_vars

\* the run is over with no rule file: no line was read, nothing was written
C21_SinReglasSinSalida ==
  /\ pc = "fin"
  /\ SoloFaltanReglas
  /\ expresiones_regulares = <<>>
  /\ leidas = <<>>
  /\ salida = <<>>

\* C22: with a dictionary file that is missing or is not valid JSON, no line
\* is read or processed, no counter changes and no output file is written
C22_SinDiccionarioNadaOcurre ==
  archivo_diccionario.estado # "valido" =>
    /\ pc \in {"inicio", "fin"}
    /\ leidas = <<>>
    /\ resultados = <<>>
    /\ lineas_procesadas = 0
    /\ lineas_con_error = 0
    /\ registros_unicos = <<>>
    /\ salida = <<>>
    /\ informe = <<>>

\* the run is over with a dictionary that is no JSON, the rule file and the
\* input file being there
C22_DiccionarioInvalidoAborta ==
  /\ pc = "fin"
  /\ archivo_diccionario = ArchivoInvalido
  /\ archivo_expresiones.estado = "valido"
  /\ existe_entrada

(***************************************************************************)
(* The fields of a line, read off the positions of its bars (Spec).         *)
(***************************************************************************)
\* the positions of the bars of a text, and the n-th of them from the left
Barras(txt) == { k \in 1..Len(txt) : txt[k] = "|" }
Barra(txt, n) ==
  CHOOSE q \in Barras(txt) : Cardinality({ x \in Barras(txt) : x < q }) = n - 1

\* the text of txt strictly between positions a and b, trimmed
Entre(txt, a, b) == Strip(SubSeq(txt, a + 1, b - 1))

\* the line being processed, as linea.strip() leaves it, and its bars
LineaActual == Strip(leidas[Len(leidas)])
NumBarras == Cardinality(Barras(LineaActual))

\* C23: of a line with k >= 4 parts (k - 1 bars) the acceptance number is the
\* text before the first bar, the declared quantity the text between the last
\* two bars and the description the text between the first bar and the last
\* but one, its inner bars kept; the text after the last bar goes nowhere, the
\* three stretches do not overlap, and with 4 parts the description is part 1
C23_CamposDeLaLinea ==
  pc \in {"linea", "ranuras", "retorno", "excepcion"} =>
    /\ NumBarras >= 3
    /\ numero_aceptacion = Entre(LineaActual, 0, Barra(LineaActual, 1))
    /\ descripcion = Entre(LineaActual, Barra(LineaActual, 1),
                           Barra(LineaActual, NumBarras - 1))
    /\ cantidad_original = Entre(LineaActual, Barra(LineaActual, NumBarras - 1),
                                 Barra(LineaActual, NumBarras))
    /\ NumBarras = 3 =>
         descripcion = Entre(LineaActual, Barra(LineaActual, 1),
                             Barra(LineaActual, 2))

\* a line of five parts is being processed: its description holds a bar and
\* its declared quantity is the fourth part
C23_DescripcionConBarra ==
  /\ pc = "linea"
  /\ NumBarras = 4
  /\ \E k \in 1..Len(descripcion) : descripcion[k] = "|"
  /\ cantidad_original = <<"-", "5">>

(***************************************************************************)
(* The counters of the loop over the lines (Spec).                          *)
(***************************************************************************)
\* the lines read so far that are not blank
NoBlancas == { k \in 1..Len(leidas) : ~EsBlanca(leidas[k]) }

\* a line is in progress: read, and not yet counted
EnCurso == pc \in {"linea", "ranuras", "retorno", "excepcion"}

\* the declared quantity of a raw line of at least 4 parts
DeclaradaDe(cruda) ==
  Entre(Strip(cruda), Barra(Strip(cruda), Cardinality(Barras(Strip(cruda))) - 1),
        Barra(Strip(cruda), Cardinality(Barras(Strip(cruda)))))

\* the lines read so far that are counted as processed once they are done
Procesables ==
  { k \in NoBlancas :
      /\ NumeroDePartes(leidas[k]) >= 4
      /\ ErrorReglas(expresiones_regulares) = ""
      /\ CantidadOriginalInt(DeclaradaDe(leidas[k])).exc = "" }

\* C27: the two counters add up to the number of lines read that are not
\* blank (the line in progress is counted when it is done), the processed
\* counter counts the lines processed without error, and every result comes
\* from such a line
C27_ContadoresDeLineas ==
  /\ pc \in {"leer", "escribir"} =>
       /\ lineas_procesadas + lineas_con_error = Cardinality(NoBlancas)
       /\ lineas_procesadas = Cardinality(Procesables)
  /\ EnCurso =>
       /\ lineas_procesadas + lineas_con_error = Cardinality(NoBlancas) - 1
       /\ lineas_procesadas = Cardinality(Procesables \ {Len(leidas)})
  /\ \A k \in 1..Len(resultados) :
       \E n \in Procesables :
         /\ resultados[k].numero_aceptacion = PrimerCampo(leidas[n])
         /\ resultados[k].cantidad_original = DeclaradaDe(leidas[n])

\* two lines were read: one was counted as an error, the other as processed
C27_UnaDeCadaContador ==
  /\ pc = "leer"
  /\ Len(leidas) = 2
  /\ lineas_procesadas = 1
  /\ lineas_con_error = 1
  /\ resultados # <<>>

(***************************************************************************)
(* Two workers, each in a call of procesar_linea_kits on a line of its     *)
(* own, in one working directory. pc, the arguments and the locals are      *)
(* pairs, one component for each worker; debug_kits.txt is the one file     *)
(* both calls open. A call is three steps: up to open(debug_file, 'w'),     *)
(* which truncates the file; the writes, which stay in the buffer of the    *)
(* handle until the with block closes it and then land at the start of the  *)
(* file; the loop that builds the records.                                  *)
(***************************************************************************)
Trabajadores == {1, 2}

InitConcurrente ==
  /\ semilla \in Semillas
  /\ reloj = 0
  /\ archivo_diccionario = ArchivoValido(DiccionarioKits)
  /\ archivo_expresiones = ArchivoValido(ExpresionesKits)
  /\ existe_entrada = TRUE
  /\ diccionario = DiccionarioKits
  /\ expresiones_regulares = ExpresionesKits
  /\ SinArchivo
  /\ SinFuncion
  /\ pc = <<"linea", "linea">>
  /\ descripcion \in DescripcionesConIndicios \X DescripcionesConIndicios
  /\ numero_aceptacion = <<<<"A", "1">>, <<"B", "2">>>>
  /\ cantidad_original = <<<<"7">>, <<"7">>>>
  /\ texto_procesado = <<<<>>, <<>>>> /\ productos = <<<<>>, <<>>>>
  /\ marcas = <<<<>>, <<>>>> /\ referencias = <<<<>>, <<>>>>
  /\ modelos = <<<<>>, <<>>>> /\ cantidades_extraidas = <<<<>>, <<>>>>
  /\ cantidades = <<<<>>, <<>>>> /\ es_cadena = <<FALSE, FALSE>>
  /\ cantidad_original_int = <<0, 0>> /\ max_elementos = <<0, 0>>
  /\ i = <<0, 0>> /\ registros = <<<<>>, <<>>>> /\ ranuras = <<<<>>, <<>>>>
  /\ excepcion = "" /\ debug_file = <<>>

\* the bytes of a file after datos were written at its start
Sobrescribe(viejo, datos) ==
  IF Len(datos) >= Len(viejo) THEN datos
  ELSE datos \o SubSeq(viejo, Len(datos) + 1, Len(viejo))

\* worker w, from the entry to the open of the debug file
AbrirDebug(w) ==
  /\ pc[w] = "linea"
  /\ \E a \in {AnalisisDe(descripcion[w], expresiones_regulares, diccionario)},
        coi \in {CantidadOriginalIntDe(cantidad_original[w])} :
     \E ps \in {ListaOCentinela(a.productos, semilla, NO_ESPECIFICADO)},
        ms \in {ListaOCentinela(a.marcas, semilla, NO_ESPECIFICADA)},
        rs \in {ListaOCentinela(a.referencias, semilla, NO_ESPECIFICADA)},
        mods \in {ListaOCentinela(a.modelos, semilla, NO_ESPECIFICADO)},
        cs \in {CantidadesUsadas(a.cantidades, coi.v)} :
         /\ texto_procesado' = [texto_procesado EXCEPT ![w] = a.texto_procesado]
         /\ productos' = [productos EXCEPT ![w] = ps]
         /\ marcas' = [marcas EXCEPT ![w] = ms]
         /\ referencias' = [referencias EXCEPT ![w] = rs]
         /\ modelos' = [modelos EXCEPT ![w] = mods]
         /\ cantidades_extraidas' = [cantidades_extraidas EXCEPT ![w] = a.cantidades]
         /\ es_cadena' = [es_cadena EXCEPT ![w] = a.es_cadena]
         /\ cantidad_original_int' = [cantidad_original_int EXCEPT ![w] = coi.v]
         /\ cantidades' = [cantidades EXCEPT ![w] = cs]
  /\ debug_file' = <<>>
  /\ pc' = [pc EXCEPT ![w] = "debug"]
  /\ UNCHANGED <<semilla, reloj, vars_archivo, vars_argumentos, max_elementos,
                 i, registros, ranuras, excepcion, vars_funcion>>

\* worker w: the writes and the end of the with block
CerrarDebug(w) ==
  /\ pc[w] = "debug"
  /\ debug_file' = Sobrescribe(debug_file, DatosDebug(productos[w]))
  /\ max_elementos' = [max_elementos EXCEPT ![w] =
       MaxElementos(productos[w], marcas[w], referencias[w], modelos[w],
                    cantidades[w])]
  /\ pc' = [pc EXCEPT ![w] = "ranuras"]
  /\ UNCHANGED <<semilla, reloj, vars_archivo, vars_argumentos, texto_procesado,
                 productos, marcas, referencias, modelos, cantidades_extraidas,
                 cantidades, es_cadena, cantidad_original_int, i, registros,
                 ranuras, excepcion, vars_funcion>>

\* the records of a call whose loop runs within the reading t of the clock
RegistrosDe(num, ps, ms, rs, mods, cs, cantidad_int, cadena, original, maximo, t) ==
  LET R[k \in 0..maximo] ==
        IF k = 0 THEN <<>>
        ELSE AgregaSiNuevo(R[k - 1],
               Registro(num, ps, ms, rs, mods, cs, cantidad_int, cadena,
                        original, k - 1, t))
  IN  R[maximo]

\* worker w: the loop and the return
Registrar(w) ==
  /\ pc[w] = "ranuras"
  /\ \E t \in reloj..Min2(reloj + 1, MaxReloj) :
       /\ registros' = [registros EXCEPT ![w] =
            RegistrosDe(numero_aceptacion[w], productos[w], marcas[w],
                        referencias[w], modelos[w], cantidades[w],
                        cantidad_original_int[w], es_cadena[w],
                        cantidad_original[w], max_elementos[w], t)]
       /\ reloj' = t
  /\ i' = [i EXCEPT ![w] = max_elementos[w]]
  /\ pc' = [pc EXCEPT ![w] = "retorno"]
  /\ UNCHANGED <<semilla, vars_archivo, vars_argumentos, texto_procesado,
                 productos, marcas, referencias, modelos, cantidades_extraidas,
                 cantidades, es_cadena, cantidad_original_int, max_elementos,
                 ranuras, excepcion, debug_file, vars_funcion>>

NextConcurrente ==
  \E w \in Trabajadores : AbrirDebug(w) \/ CerrarDebug(w) \/ Registrar(w)

SpecConcurrente == InitConcurrente /\ [][NextConcurrente]_vars

\* a record without the reading of the clock
SinFecha(r) == [c \in DOMAIN r \ {"fecha_procesamiento"} |-> r[c]]

\* what one call alone returns for the line of worker w, and what it leaves
\* in debug_kits.txt
EnSecuencia(w) ==
  LET a   == AnalisisDe(descripcion[w], ExpresionesKits, DiccionarioKits)
      coi == CantidadOriginalIntDe(cantidad_original[w])
      ps  == ListaOCentinela(a.productos, semilla, NO_ESPECIFICADO)
      ms  == ListaOCentinela(a.marcas, semilla, NO_ESPECIFICADA)
      rs  == ListaOCentinela(a.referencias, semilla, NO_ESPECIFICADA)
      mods == ListaOCentinela(a.modelos, semilla, NO_ESPECIFICADO)
      cs  == CantidadesUsadas(a.cantidades, coi.v)
  IN  [registros |->
         RegistrosDe(numero_aceptacion[w], ps, ms, rs, mods, cs, coi.v,
                     a.es_cadena, cantidad_original[w],
                     MaxElementos(ps, ms, rs, mods, cs), 0),
       debug |-> DatosDebug(ps)]

AmbosRetornaron == pc = <<"retorno", "retorno">>

\* C24: two calls of procesar_linea_kits that run at the same time share no
\* state that can change: once both have returned, each has the records the
\* call alone returns for its line, and what they leave behind is what the
\* two calls one after the other, line 1 then line 2, leave: debug_kits.txt
\* holds the products of line 2
C24_ComoEnSecuencia ==
  AmbosRetornaron =>
    /\ \A w \in Trabajadores :
         [k \in 1..Len(registros[w]) |-> SinFecha(registros[w][k])]
           = [k \in 1..Len(EnSecuencia(w).registros) |->
                SinFecha(EnSecuencia(w).registros[k])]
    /\ debug_file = EnSecuencia(2).debug

\* both calls returned the records of their lines, and debug_kits.txt holds
\* the products of line 1 and none of line 2: worker 1 closed the file last
C24_QuedaLaPrimeraLinea ==
  /\ AmbosRetornaron
  /\ \A w \in Trabajadores :
       [k \in 1..Len(registros[w]) |-> SinFecha(registros[w][k])]
         = [k \in 1..Len(EnSecuencia(w).registros) |->
              SinFecha(EnSecuencia(w).registros[k])]
  /\ debug_file = EnSecuencia(1).debug
  /\ debug_file # EnSecuencia(2).debug

(***************************************************************************)
(* aplicar_reemplazos_diccionario_kits on its own: a text of up to          *)
(* MaxPalabras words and a dictionary whose phrases match the words, the    *)
(* tags put in for them and the values put in for them.                     *)
(***************************************************************************)
MaxPalabras == 2

Palabras ==
  { <<"I", "T", "E", "M", " ">>, <<"A", "K", "T", " ">>, <<"P", "R", "O", " ">>, <<"M", "A", "R", "C", "A", " ">>, <<"X", "1", " ">> }

TextosDiccionario ==
  { Strip(Une(fs)) : fs \in UNION { [1..k -> Palabras] : k \in 0..MaxPalabras } }

DiccionariosPosibles ==
  { [producto_variants        |-> pv,
     marca_variants           |-> mv,
     marcas_conocidas         |-> mc,
     referencia_segun_variant |-> rsv] :
      pv  \in { <<>>, <<<<"I", "T", "E", "M">>>> },
      mv  \in { <<>>, <<<<"P", "R", "O">>>>, <<<<"P", "R", "O">>, <<"M", "A", "R", "C", "A">>>> },
      mc  \in { <<>>, << <<<<"A", "K", "T">>, <<"A", "K", "T", " ", "B", "R", "A", "N", "D">>>> >>,
                << <<<<"A", "K", "T">>, <<>>>>, <<<<"C", "A">>, <<"X">>>> >> },
      rsv \in { <<>>, << <<<<"X">>, <<"Y">>>> >> } }

InitDiccionario ==
  /\ pc = "reemplazar"
  /\ semilla = 0
  /\ reloj = 0
  /\ archivo_diccionario = ArchivoAusente
  /\ archivo_expresiones = ArchivoAusente
  /\ existe_entrada = FALSE
  /\ diccionario = <<>>
  /\ expresiones_regulares = <<>>
  /\ SinArchivo
  /\ SinLlamada
  /\ fn_texto \in TextosDiccionario
  /\ fn_reglas \in DiccionariosPosibles
  /\ fn_devuelto = <<>>
  /\ fn_error = ""

\* aplicar_reemplazos_diccionario_kits called on the text and the dictionary
AplicarDiccionario ==
  /\ pc = "reemplazar"
  /\ fn_devuelto' = aplicar_reemplazos_diccionario_kits(fn_texto, fn_reglas)
  /\ pc' = "reemplazado"
  /\ UNCHANGED <<semilla, reloj, vars_archivo, vars_argumentos, vars_linea,
                 fn_texto, fn_reglas, fn_error>>

SpecDiccionario == InitDiccionario /\ [][AplicarDiccionario]_vars

\* the phrases of a dictionary with what each is replaced by, as one list:
\* the tag categories in their order, each phrase with the tag of its
\* category, then the correction maps in their order, each phrase with its
\* value, the entries with an empty value left out
RECURSIVE ParesDeEtiquetas(_, _)
ParesDeEtiquetas(dicc, k) ==
  IF k > Len(Etiquetas) THEN <<>>
  ELSE [n \in 1..Len(Categoria(dicc, Etiquetas[k][1])) |->
          <<Categoria(dicc, Etiquetas[k][1])[n], Etiquetas[k][2]>>]
       \o ParesDeEtiquetas(dicc, k + 1)

RECURSIVE ParesDeCorrecciones(_, _)
ParesDeCorrecciones(dicc, k) ==
  IF k > Len(Correcciones) THEN <<>>
  ELSE SelectSeq(Categoria(dicc, Correcciones[k]), LAMBDA par : par[2] # <<>>)
       \o ParesDeCorrecciones(dicc, k + 1)

\* the replacements of a list made one after the other, each on the text
\* the one before it left
RECURSIVE Plegado(_, _)
Plegado(txt, pares) ==
  IF pares = <<>> THEN txt
  ELSE Plegado(Replace(txt, Head(pares)[1], Head(pares)[2]), Tail(pares))

\* C25: aplicar_reemplazos_diccionario_kits returns what the replacements of
\* the dictionary give when made one after the other in the order of the
\* categories (the tags, then the correction maps) and of the phrases in
\* each, every one on the text as the earlier ones left it; an entry of a
\* correction map with an empty value replaces nothing
C25_PliegueEnOrden ==
  pc = "reemplazado" =>
    fn_devuelto = Plegado(fn_texto, ParesDeEtiquetas(fn_reglas, 1)
                                      \o ParesDeCorrecciones(fn_reglas, 1))

\* ITEM became the product tag, PRO inside that tag became the brand tag, CA
\* inside the brand tag became X and that X became Y, while AKT, whose value
\* is empty, is still there
C25_EtiquetaReescrita ==
  /\ pc = "reemplazado"
  /\ fn_texto = <<"I", "T", "E", "M", " ", "A", "K", "T">>
  /\ fn_reglas.marcas_conocidas = << <<<<"A", "K", "T">>, <<>>>>, <<<<"C", "A">>, <<"X">>>> >>
  /\ fn_devuelto = <<",", " ", ",", " ", "M", "A", "R", "Y", ":", "D", "U", "C", "T", "O", ":", " ", "A", "K", "T">>

\* how many times the tag of a field is in a text
Veces(txt, etiqueta) ==
  Cardinality({ p \in 1..Len(txt) : EstaEn(etiqueta, Upper(txt), p) })

\* C28: a text in which the tag of the brand is once gives a list of one
\* brand, and a text in which the tag of the reference is once gives a list
\* of one reference, whatever characters the value is made of
C28_UnaEtiquetaUnCandidato ==
  pc = "extraido" =>
    /\ Veces(fn_texto, kMARCA \o <<":">>) = 1 => Len(fn_devuelto.marcas) = 1
    /\ Veces(fn_texto, kREFERENCIA \o <<":">>) = 1
         => Len(fn_devuelto.referencias) = 1

\* the one brand AK.T gives two: the first pattern finds AK.T, the third,
\* which stops at the point, finds AK
C28_DosMarcasDeUna ==
  /\ pc = "extraido"
  /\ fn_texto = <<",", " ", "M", "A", "R", "C", "A", ":", " ", "A", "K", ".", "T", " ", ",", " ", "M", "O", "D", "E", "L", "O", ":", " ", "X", "1", " ">>
  /\ Veces(fn_texto, kMARCA \o <<":">>) = 1
  /\ Len(fn_devuelto.marcas) = 2
  /\ { fn_devuelto.marcas[k] : k \in 1..2 } = { <<"A", "K", ".", "T">>, <<"A", "K">> }

\* C29: every record a call of procesar_linea_kits builds has N/A as
\* pasos_medidas and UNIDADES as unidad, whatever extraer_pasos_medidas finds
\* in the text
C29_PasosYUnidadFijos ==
  /\ \A k \in 1..Len(ranuras) :
       ranuras[k].pasos_medidas = N_A /\ ranuras[k].unidad = "UNIDADES"
  /\ pc \in {"ranuras", "retorno"} =>
       \A k \in 1..Len(registros) :
         registros[k].pasos_medidas = N_A /\ registros[k].unidad = "UNIDADES"

\* the call returned a record with N/A for a text in which
\* extraer_pasos_medidas finds the step 428H and the measure 12.7 MM
C29_PasoHalladoYNoEscrito ==
  /\ pc = "retorno"
  /\ registros # <<>>
  /\ registros[1].pasos_medidas = N_A
  /\ extraer_pasos_medidas(texto_procesado)
       = << <<"4", "2", "8", "H">>, <<"4", "2", "8", "H">>, <<"1", "2", ".", "7", " ", "M", "M">>, <<"1", "2", ".", "7", " ", "M", "M">> >>

(***************************************************************************)
(* kits.py, ImportacionAnalyzer.create_detailed_dataframe: fn_texto is      *)
(* self.data, fn_devuelto the list detailed_data, i the number of records   *)
(* the loop has done.                                                       *)
(***************************************************************************)
MaxRegistros == 2

\* ', '.join(pasos)
RECURSIVE JoinComa(_)
JoinComa(partes) ==
  IF partes = <<>> THEN <<>>
  ELSE IF Len(partes) = 1 THEN partes[1]
  ELSE partes[1] \o <<",", " ">> \o JoinComa(Tail(partes))

\* the items extract_products_with_quantities can give a record
ItemsPosibles ==
  << [cantidad |-> 2, unidad |-> <<"U", "N", "D">>, producto |-> <<"E", "J", "E">>],
     [cantidad |-> 5, unidad |-> <<"U", "N", "D">>, producto |-> <<"A", "R", "O">>],
     [cantidad |-> 1, unidad |-> <<"K", "I", "T">>, producto |-> <<"P", "I", "N">>] >>

\* sum(item['cantidad'] for item in productos_con_cantidad)
RECURSIVE SumaCantidades(_)
SumaCantidades(items) ==
  IF items = <<>> THEN 0 ELSE Head(items).cantidad + SumaCantidades(Tail(items))

\* the records extract_record_data can give, before their number: the lists
\* extract_with_pattern returns hold no text twice and no empty text
RegistrosAnalizados ==
  { [numero_aceptacion      |-> num,
     productos_con_cantidad |-> SubSeq(ItemsPosibles, 1, n),
     marcas                 |-> ms,
     referencias            |-> rs,
     modelos                |-> mods,
     es_cadena              |-> mods # <<>>,
     pasos                  |-> IF mods # <<>> THEN <<<<"4", "2", "8", "H">>, <<"1", "2", ".", "7", " ", "M", "M">>>>
                                ELSE <<>>,
     cantidad_total         |-> SumaCantidades(SubSeq(ItemsPosibles, 1, n))] :
      num \in Aceptaciones, n \in {0, 1, 3},
      ms \in { <<>>, <<<<"K", "T", "M">>>>, <<<<"K", "T", "M">>, <<"A", "K", "T">>>> },
      rs \in { <<>>, <<<<"R", "2">>>> },
      mods \in { <<>>, <<<<"X", "1">>, <<"X", "2">>>> } }

\* self.data after process_file: data['registro_numero'] = i
DatosPosibles ==
  { { [k \in 1..n |-> [campo \in DOMAIN regs[k] \cup {"registro_numero"} |->
                         IF campo = "registro_numero" THEN k
                         ELSE regs[k][campo]]] :
      regs \in [1..n -> RegistrosAnalizados] } : n \in 0..MaxRegistros }

InitDetalle ==
  /\ pc = "detalle"
  /\ semilla = 0
  /\ reloj = 0
  /\ archivo_diccionario = ArchivoAusente
  /\ archivo_expresiones = ArchivoAusente
  /\ existe_entrada = FALSE
  /\ diccionario = <<>>
  /\ expresiones_regulares = <<>>
  /\ SinArchivo
  /\ SinLlamada
  /\ fn_texto \in UNION DatosPosibles
  /\ fn_reglas = <<>>
  /\ fn_devuelto = <<>>
  /\ fn_error = ""

\* lista[i] if i < len(lista) else lista[-1] if lista else defecto
ElementoOUltimo(lista, idx, defecto) ==
  IF idx < Len(lista) THEN lista[idx + 1]
  ELSE IF lista # <<>> THEN lista[Len(lista)] ELSE defecto

\* lista[i] if i < len(lista) else lista[0] if lista else defecto
ElementoOPrimero(lista, idx, defecto) ==
  IF idx < Len(lista) THEN lista[idx + 1]
  ELSE IF lista # <<>> THEN lista[1] ELSE defecto

\* the row of item idx (from 0) of a record, built when the clock reads t
FilaDeProducto(record, idx, t) ==
  [numero_aceptacion        |-> record.numero_aceptacion,
   registro_numero          |-> record.registro_numero,
   cantidad                 |-> record.productos_con_cantidad[idx + 1].cantidad,
   unidad                   |-> record.productos_con_cantidad[idx + 1].unidad,
   producto                 |-> record.productos_con_cantidad[idx + 1].producto,
   marca                    |-> ElementoOPrimero(record.marcas, idx, NO_ESPECIFICADA),
   referencia               |-> ElementoOPrimero(record.referencias, idx, NO_ESPECIFICADA),
   modelo                   |-> ElementoOPrimero(record.modelos, idx, NO_ESPECIFICADO),
   es_cadena                |-> IF record.es_cadena THEN "SI" ELSE "NO",
   paso_medida              |-> IF record.pasos # <<>> THEN JoinComa(record.pasos) ELSE N_A,
   total_productos_registro |-> Len(record.productos_con_cantidad),
   cantidad_total_registro  |-> record.cantidad_total,
   fecha_procesamiento      |-> t]

\* the row of a record without items
FilaGeneral(record, t) ==
  [numero_aceptacion        |-> record.numero_aceptacion,
   registro_numero          |-> record.registro_numero,
   cantidad                 |-> 0,
   unidad                   |-> N_A,
   producto                 |-> <<"I", "N", "F", "O", "R", "M", "A", "C", "I", "O", "N", " ", "N", "O", " ", "E", "S", "P", "E", "C", "I", "F", "I", "C", "A">>,
   marca                    |-> ElementoOPrimero(record.marcas, 0, NO_ESPECIFICADA),
   referencia               |-> ElementoOPrimero(record.referencias, 0, NO_ESPECIFICADA),
   modelo                   |-> ElementoOPrimero(record.modelos, 0, NO_ESPECIFICADO),
   es_cadena                |-> IF record.es_cadena THEN "SI" ELSE "NO",
   paso_medida              |-> IF record.pasos # <<>> THEN JoinComa(record.pasos) ELSE N_A,
   total_productos_registro |-> 0,
   cantidad_total_registro  |-> 0,
   fecha_procesamiento      |-> t]

\* one turn of the loop over self.data; the rows of a record are built
\* within one reading of the clock
FilasDeRegistro ==
  /\ pc = "detalle"
  /\ i < Len(fn_texto)
  /\ \E t \in reloj..Min2(reloj + 1, MaxReloj), record \in {fn_texto[i + 1]} :
       /\ fn_devuelto' = fn_devuelto \o
            (IF record.productos_con_cantidad # <<>>
               THEN [n \in 1..Len(record.productos_con_cantidad) |->
                       FilaDeProducto(record, n - 1, t)]
               ELSE <<FilaGeneral(record, t)>>)
       /\ reloj' = t
  /\ i' = i + 1
  /\ UNCHANGED <<pc, semilla, vars_archivo, vars_argumentos, texto_procesado,
                 productos, marcas, referencias, modelos, cantidades_extraidas,
                 cantidades, es_cadena, cantidad_original_int, max_elementos,
                 registros, ranuras, excepcion, debug_file, fn_texto,
                 fn_reglas, fn_error>>

\* return pd.DataFrame(detailed_data)
RetornarDetalle ==
  /\ pc = "detalle"
  /\ i = Len(fn_texto)
  /\ pc' = "detallado"
  /\ UNCHANGED <<semilla, reloj, vars_archivo, vars_argumentos, vars_linea,
                 vars_funcion>>

SpecDetalle == InitDetalle /\ [][FilasDeRegistro \/ RetornarDetalle]_vars

\* the number of rows a record gives
FilasDe(record) == Max2(1, Len(record.productos_con_cantidad))

\* the rows of detailed_data that come before those of record n
RECURSIVE FilasAntesDe(_, _)
FilasAntesDe(data, n) ==
  IF n <= 1 THEN 0 ELSE FilasAntesDe(data, n - 1) + FilasDe(data[n - 1])

\* the field of row idx (from 0) of a record whose list is lista: the
\* element at idx, the first one when the list ends before idx, the
\* placeholder when the list is empty
CampoDeFila(campo, lista, idx, centinela) ==
  /\ idx < Len(lista) => campo = lista[idx + 1]
  /\ (idx >= Len(lista) /\ lista # <<>>) => campo = lista[1]
  /\ campo = centinela => lista = <<>>
  /\ lista = <<>> => campo = centinela

\* C30: every record of self.data the loop has done has max(1, number of
\* its products) rows in detailed_data, one after the other, all with its
\* numero_aceptacion; the brand, reference and model of row idx are the
\* element idx of their lists, the first element when the list is shorter,
\* and the placeholder only when the list is empty
C30_FilasPorProducto ==
  pc \in {"detalle", "detallado"} =>
    /\ Len(fn_devuelto) = FilasAntesDe(fn_texto, i + 1)
    /\ \A n \in 1..i : \A idx \in 0..(FilasDe(fn_texto[n]) - 1) :
         LET fila == fn_devuelto[FilasAntesDe(fn_texto, n) + idx + 1]
         IN  /\ fila.numero_aceptacion = fn_texto[n].numero_aceptacion
             /\ fila.registro_numero = n
             /\ CampoDeFila(fila.marca, fn_texto[n].marcas, idx, NO_ESPECIFICADA)
             /\ CampoDeFila(fila.referencia, fn_texto[n].referencias, idx,
                            NO_ESPECIFICADA)
             /\ CampoDeFila(fila.modelo, fn_texto[n].modelos, idx,
                            NO_ESPECIFICADO)

\* a record of three products, two brands and no reference gave three rows;
\* the third has the first brand, KTM, and the placeholder as reference;
\* the record after it, without products, gave one row
C30_TerceraFilaPrimeraMarca ==
  /\ pc = "detallado"
  /\ Len(fn_texto) = 2
  /\ Len(fn_texto[1].productos_con_cantidad) = 3
  /\ fn_texto[1].marcas = <<<<"K", "T", "M">>, <<"A", "K", "T">>>>
  /\ fn_texto[2].productos_con_cantidad = <<>>
  /\ Len(fn_devuelto) = 4
  /\ fn_devuelto[3].marca = <<"K", "T", "M">>
  /\ fn_devuelto[3].referencia = NO_ESPECIFICADA

(***************************************************************************)
(* extractor_llantas: procesar_linea_importacion and the functions it       *)
(* calls.  A value that is an int in one run and a str or a list in         *)
(* another is written with its type: [tipo, v].                             *)
(***************************************************************************)
Entero(n)   == [tipo |-> "int", v |-> n]
Cadena(txt) == [tipo |-> "str", v |-> txt]
Lista(vs)   == [tipo |-> "list", v |-> vs]

kCODIGO  == <<"C", "O", "D", "I", "G", "O">>
kSERIAL  == <<"S", "E", "R", "I", "A", "L">>

EtiquetasLlantas ==
  << <<"segun_variants",      <<" ", "S", "E", "G", "U", "N", " ">>>>,
     <<"factura_variants",    <<" ", "F", "A", "C", "T", "U", "R", "A", " ">>>>,
     <<"referencia_variants", <<",", " ", "R", "E", "F", "E", "R", "E", "N", "C", "I", "A", ":", " ">>>>,
     <<"marca_variants",      <<",", " ", "M", "A", "R", "C", "A", ":", " ">>>>,
     <<"cantidad_variants",   <<",", " ", "C", "A", "N", "T", "I", "D", "A", "D", ":", " ">>>>,
     <<"codigo_variants",     <<",", " ", "C", "O", "D", "I", "G", "O", ":", " ">>>>,
     <<"producto_variants",   <<",", " ", "P", "R", "O", "D", "U", "C", "T", "O", ":", " ">>>> >>

CorreccionesLlantas == << "marcas_conocidas", "referencia_modelo_variants" >>

RECURSIVE ReemplazaEtiquetasLlantas(_, _, _)
ReemplazaEtiquetasLlantas(txt, dicc, k) ==
  IF k > Len(EtiquetasLlantas) THEN txt
  ELSE Luego(ReemplazaVariantes(txt, Categoria(dicc, EtiquetasLlantas[k][1]),
                                1, EtiquetasLlantas[k][2]),
             LAMBDA t : ReemplazaEtiquetasLlantas(t, dicc, k + 1))

RECURSIVE ReemplazaCorreccionesLlantas(_, _, _)
ReemplazaCorreccionesLlantas(txt, dicc, k) ==
  IF k > Len(CorreccionesLlantas) THEN txt
  ELSE Luego(ReemplazaMapa(txt, Categoria(dicc, CorreccionesLlantas[k]), 1),
             LAMBDA t : ReemplazaCorreccionesLlantas(t, dicc, k + 1))

aplicar_reemplazos_diccionario(txt, dicc) ==
  Luego(ReemplazaEtiquetasLlantas(txt, dicc, 1),
        LAMBDA t : ReemplazaCorreccionesLlantas(t, dicc, 1))

\* the first entry of referencia_modelo_variants the reference is equal to,
\* letter case and outer blanks aside, gives its value; else the blanks
\* around hyphens go and the others collapse
aplicar_correcciones_referencia(referencia, dicc) ==
  Luego(Categoria(dicc, "referencia_modelo_variants"), LAMBDA pares :
  Luego({ k \in 1..Len(pares) :
            Strip(Upper(referencia)) = Strip(Upper(pares[k][1])) }, LAMBDA ks :
    IF ks # {} THEN pares[Minimo(ks)][2]
    ELSE ColapsaEspacios(
           Sub(Cat(<<Esp0, Lit(<<"-">>), Esp0>>), <<"-">>, referencia))))

patrones_referencia_llantas ==
  PatronesCampo(kREFERENCIA,
                <<kMARCA, kCANTIDADs, kREFERENCIA, kPRODUCTO, kMODELO, kCODIGO,
                  kSERIAL>>)

patrones_marca_llantas ==
  PatronesCampo(kMARCA,
                <<kMODELO, kREFERENCIA, kCANTIDADs, kMARCA, kPRODUCTO, kCODIGO,
                  kSERIAL>>)

SEGUN_FACTURA == <<"S", "E", "G", "U", "N", " ", "F", "A", "C", "T", "U", "R", "A">>

extraer_referencias(txt, dicc, sem) ==
  Luego(Descubiertos(patrones_referencia_llantas, 1, txt, MinimoCampo,
                     {NO_TIENE, SEGUN_FACTURA}), LAMBDA ds :
    ListaOCentinela([k \in 1..Len(ds) |->
                       aplicar_correcciones_referencia(ds[k], dicc)],
                    sem, NO_TIENE))

extraer_marcas(txt, sem) ==
  Luego(Descubiertos(patrones_marca_llantas, 1, txt, MinimoCampo, {NO_TIENE}),
        LAMBDA ds : ListaOCentinela(ds, sem, NO_TIENE))

rCant == Cat(<<Lit(kCANTIDAD), Esp0>>)                          \* CANTIDAD:\s*
rEntreParentesis ==                                             \* \(?(\d+)\)?
  Cat(<<Opc(Lit(<<"(">>)), Grp(Dig1), Opc(Lit(<<")">>))>>)
rUSinNidad == Cat(<<Lit(<<"U">>), NoVer(Lit(kNIDAD))>>)         \* U(?!NIDAD)

patrones_cantidad_llantas ==
  << Cat(<<rComaCant, Grp(Dig1), Esp0, rUnidades>>),
     Cat(<<rComaCant, Grp(Dig1), Esp0, rUSinNidad>>),
     Cat(<<rComaCant, rEntreParentesis, Esp0, rUSinNidad>>),
     Cat(<<rComaCant, Grp(Dig1)>>),
     Cat(<<rCant, Grp(Dig1), Esp0, rUnidades>>),
     Cat(<<rCant, Grp(Dig1), Esp0, rUSinNidad>>),
     Cat(<<rCant, rEntreParentesis, Esp0, rUSinNidad>>),
     Cat(<<rCant, Grp(Dig1)>>) >>

\* sorted(list(cantidades)) if cantidades else 0: a list, or the int 0
extraer_cantidades(txt) ==
  Luego(UNION { { EnteroDe(ms[n]) : n \in { q \in 1..Len(ms) : EnteroDe(ms[q]) > 0 } } :
                ms \in { FindAll(patrones_cantidad_llantas[k], txt) :
                           k \in 1..Len(patrones_cantidad_llantas) } },
        LAMBDA cants : IF cants = {} THEN Entero(0) ELSE Lista(Ordenada(cants)))

\* str(n) of an integer that is not negative
CifraDe(n) == <<"0", "1", "2", "3", "4", "5", "6", "7", "8", "9">>[n + 1]

RECURSIVE TextoDeEntero(_)
TextoDeEntero(n) ==
  IF n < 10 THEN <<CifraDe(n)>>
  ELSE TextoDeEntero(n \div 10) \o <<CifraDe(n % 10)>>

RECURSIVE TextosConComa(_)
TextosConComa(ns) ==
  IF ns = <<>> THEN <<>>
  ELSE IF Len(ns) = 1 THEN TextoDeEntero(ns[1])
  ELSE TextoDeEntero(ns[1]) \o <<",", " ">> \o TextosConComa(Tail(ns))

\* str(cantidades) of what extraer_cantidades returned
Str(valor) ==
  IF valor.tipo = "int" THEN TextoDeEntero(valor.v)
  ELSE <<"[">> \o TextosConComa(valor.v) \o <<"]">>

\* (\d+)[.,]00\b
patron_cantidad_limpia_llantas ==
  Cat(<<Grp(Dig1), Car({".", ","}), Lit(<<"0", "0">>), Borde>>)

\* the try statement of procesar_linea_importacion: int(float(...)) of the
\* text of a value, 0 when it raises ValueError or TypeError
EnteroDelTexto(txt) ==
  Luego(Sub(patron_cantidad_limpia_llantas, <<Ref1>>, txt), LAMBDA cantidad_limpia :
  Luego(IntFloat(cantidad_limpia), LAMBDA r :
    IF r.exc \in ExcepcionesCapturadas THEN [exc |-> "", v |-> 0] ELSE r))

\* if not cantidades and cantidades == 0: cantidades = [cantidad_original]
CantidadesImportacion(extraidas, original) ==
  IF extraidas.tipo = "int" /\ extraidas.v = 0
    THEN <<Cadena(original)>>
    ELSE [k \in 1..Len(extraidas.v) |-> Entero(extraidas.v[k])]

\* the dict registro of slot idx
RegistroImportacion(num, rs, ms, cs, cantidad_int, original, idx) ==
  [numero_aceptacion |-> num,
   referencia        |-> Elemento(rs, idx, NO_TIENE),
   marca             |-> Elemento(ms, idx, NO_TIENE),
   cantidad          |-> Elemento(cs, idx, Entero(cantidad_int)),
   cantidad_original |-> original]

\* the list registros after the loop
RegistrosImportacion(num, rs, ms, cs, cantidad_int, original, maximo) ==
  LET R[k \in 0..maximo] ==
        IF k = 0 THEN <<>>
        ELSE AgregaSiNuevo(R[k - 1],
               RegistroImportacion(num, rs, ms, cs, cantidad_int, original, k - 1))
  IN  R[maximo]

\* a dictionary file of extractor_llantas
DiccionarioLlantas ==
  [referencia_variants        |-> <<<<"R", "E", "F", "E", "R", "E", "N", "C", "I", "A", ":">>, <<"R", "E", "F", ":">>>>,
   marca_variants             |-> <<<<"M", "A", "R", "C", "A", ":">>>>,
   cantidad_variants          |-> <<<<"C", "A", "N", "T", "I", "D", "A", "D", ":">>>>,
   marcas_conocidas           |-> << <<<<"K", "E", "N", " ", "D", "A">>, <<"K", "E", "N", "D", "A">>>> >>,
   referencia_modelo_variants |-> << <<<<"K", " ", "2", "7", "0">>, <<"K", "-", "2", "7", "0">>>> >>]

MaxTramos == 2

Tramos ==
  { <<"L", "L", "A", "N", "T", "A", " ">>, <<"m", "a", "r", "c", "a", ":", " ", "k", "e", "n", " ", "d", "a", " ">>, <<"R", "E", "F", ":", " ", "K", " ", "2", "7", "0", " ">>, <<"R", "E", "F", "E", "R", "E", "N", "C", "I", "A", ":", " ", "U", " ", "-", " ", "6", "2", "2", "4", " ">>,
    <<"C", "A", "N", "T", "I", "D", "A", "D", ":", " ", "5", " ", "U", "N", "I", "D", "A", "D", "E", "S", " ">>, <<"c", "a", "n", "t", "i", "d", "a", "d", ":", " ", "(", "1", "2", ")", " ", "u", " ">> }

DescripcionesLlantas ==
  { Strip(Une(fs)) : fs \in UNION { [1..k -> Tramos] : k \in 0..MaxTramos } }

InitImportacion ==
  /\ pc = "linea"
  /\ semilla \in Semillas
  /\ reloj = 0
  /\ archivo_diccionario = ArchivoValido(DiccionarioLlantas)
  /\ archivo_expresiones = ArchivoAusente
  /\ existe_entrada = TRUE
  /\ diccionario = DiccionarioLlantas
  /\ expresiones_regulares = <<>>
  /\ SinArchivo
  /\ descripcion \in DescripcionesLlantas
  /\ numero_aceptacion \in Aceptaciones
  /\ cantidad_original \in Declaradas
  /\ texto_procesado = <<>> /\ productos = <<>> /\ marcas = <<>>
  /\ referencias = <<>> /\ modelos = <<>> /\ cantidades_extraidas = <<>>
  /\ cantidades = <<>> /\ es_cadena = FALSE /\ cantidad_original_int = 0
  /\ max_elementos = 0 /\ i = 0 /\ registros = <<>> /\ ranuras = <<>>
  /\ excepcion = "" /\ debug_file = <<>>
  /\ SinFuncion

\* procesar_linea_importacion, from the entry to the start of the loop
ExtraerImportacion ==
  /\ pc = "linea"
  /\ \E texto \in { aplicar_reemplazos_diccionario(
                      limpiar_y_normalizar_texto(descripcion, expresiones_regulares),
                      diccionario) } :
     \E rs \in {extraer_referencias(texto, diccionario, semilla)},
        ms \in {extraer_marcas(texto, semilla)},
        extraidas \in {extraer_cantidades(texto)} :
     \E coi \in {EnteroDelTexto(Str(extraidas))},
        cs \in {CantidadesImportacion(extraidas, cantidad_original)} :
         /\ texto_procesado' = texto
         /\ referencias' = rs
         /\ marcas' = ms
         /\ cantidades_extraidas' = extraidas
         /\ cantidad_original_int' = coi.v
         /\ cantidades' = cs
         /\ max_elementos' = Max2(Max2(Len(rs), Len(ms)), Max2(Len(cs), 1))
  /\ pc' = "ranuras"
  /\ UNCHANGED <<semilla, reloj, vars_archivo, vars_argumentos, productos,
                 modelos, es_cadena, i, registros, ranuras, excepcion,
                 debug_file, vars_funcion>>

\* the loop and the return
RegistrarImportacion ==
  /\ pc = "ranuras"
  /\ registros' = RegistrosImportacion(numero_aceptacion, referencias, marcas,
                                       cantidades, cantidad_original_int,
                                       cantidad_original, max_elementos)
  /\ i' = max_elementos
  /\ pc' = "retorno"
  /\ UNCHANGED <<semilla, reloj, vars_archivo, vars_argumentos, texto_procesado,
                 productos, marcas, referencias, modelos, cantidades_extraidas,
                 cantidades, es_cadena, cantidad_original_int, max_elementos,
                 ranuras, excepcion, debug_file, vars_funcion>>

SpecImportacion ==
  InitImportacion /\ [][ExtraerImportacion \/ RegistrarImportacion]_vars

\* the declared quantity as an integer: '.00' or ',00' after its digits
\* taken off, 0 when it is no number
DeclaradaEntera(declarada) ==
  LET r == IntFloat(Sub(patron_cantidad_limpia_llantas, <<Ref1>>, declarada))
  IN  IF r.exc = "" THEN r.v ELSE 0

\* C26: when extraer_cantidades finds no quantity in the text, the cantidad
\* of every record procesar_linea_importacion returns is an integer, the
\* declared quantity coerced, and not the declared text
C26_CantidadDeclaradaEntera ==
  (pc = "retorno" /\ cantidades_extraidas = Entero(0)) =>
    \A k \in 1..Len(registros) :
      /\ registros[k].cantidad.tipo = "int"
      /\ registros[k].cantidad.v = DeclaradaEntera(cantidad_original)

\* no quantity is in the text, 5.00 is declared: the record has the text
\* 5.00 as cantidad, and cantidad_original_int is 0
C26_CantidadEsElTexto ==
  /\ pc = "retorno"
  /\ cantidades_extraidas = Entero(0)
  /\ cantidad_original = <<"5", ".", "0", "0">>
  /\ Len(registros) = 1
  /\ registros[1].cantidad = Cadena(<<"5", ".", "0", "0">>)
  /\ cantidad_original_int = 0
=============================================================================
